---------------------------- MODULE Spec2Model ----------------------------
(***************************************************************************)
(* A model of the field storage layer of ExeTera:                          *)
(*   - the buffered writer of an IndexedString field                       *)
(*     (fields.py, WriteableIndexedFieldArray),                            *)
(*   - the read-only and writeable array handles of a field and the        *)
(*     field-level apply_filter / apply_index (fields.py),                 *)
(*   - the DataFrame-level apply_filter / apply_index (dataframe.py).      *)
(* Strings are sequences of code points, stored as their UTF-8 bytes.      *)
(***************************************************************************)
EXTENDS Integers, Sequences, FiniteSets, TLC

(***************************************************************************)
(* Bounds of the model.                                                    *)
(***************************************************************************)
\* capacity of the staging buffers of a writeable indexed array (the field's
\* 'chunksize' attribute); small, so that flushes happen inside a write_part
ChunkSize == 2
\* longest string (in code points) handed to write_part
MaxStrLen == 2
\* most strings in one write_part / write call
MaxPart == 2
\* most rows staged or stored in the field under the writer
MaxRows == 3

\* the code points strings are drawn from: 'a' (one UTF-8 byte) and
\* U+00E9 (two UTF-8 bytes, 195 169)
Chars == {97, 233}

(***************************************************************************)
(* Sequences helpers.                                                      *)
(***************************************************************************)
SeqsUpTo(S, n) == UNION {[1..k -> S] : k \in 0..n}

Min(a, b) == IF a < b THEN a ELSE b
Max(a, b) == IF a > b THEN a ELSE b

\* s[a:b] of Python / numpy for 0 <= a: zero-based, half-open, clamped
Slice(s, a, b) ==
  LET lo == Min(a, Len(s))
      hi == Min(b, Len(s))
  IN  IF hi <= lo THEN <<>> ELSE SubSeq(s, lo + 1, hi)

Last(s) == s[Len(s)]

(***************************************************************************)
(* str.encode() and bytes.decode(): UTF-8 for code points below 2048.      *)
(***************************************************************************)
EncodeChar(c) ==
  IF c < 128 THEN <<c>> ELSE <<192 + (c \div 64), 128 + (c % 64)>>

RECURSIVE Encode(_)
Encode(s) == IF s = <<>> THEN <<>> ELSE EncodeChar(Head(s)) \o Encode(Tail(s))

\* the marker of a byte sequence that is no UTF-8 text (decode() raises)
DecodeError == <<-1>>

RECURSIVE Decode(_)
Decode(b) ==
  IF b = <<>> THEN <<>>
  ELSE IF Head(b) < 128
    THEN LET r == Decode(Tail(b))
         IN  IF r = DecodeError THEN DecodeError ELSE <<Head(b)>> \o r
  ELSE IF Head(b) >= 192 /\ Head(b) < 224 /\ Len(b) >= 2
          /\ b[2] >= 128 /\ b[2] < 192
    THEN LET r == Decode(Tail(Tail(b)))
         IN  IF r = DecodeError THEN DecodeError
             ELSE <<(Head(b) - 192) * 64 + (b[2] - 128)>> \o r
  ELSE DecodeError

Strings == SeqsUpTo(Chars, MaxStrLen)
Parts == SeqsUpTo(Strings, MaxPart)

(***************************************************************************)
(* The backing storage collaborator (DataWriter): a flat array that is     *)
(* created, appended to and deleted.                                       *)
(***************************************************************************)
\* DataWriter.write(group, name, data, count): append data[:count]
DataWriterWrite(dataset, data, count) == dataset \o Slice(data, 0, count)

\* DataWriter.clear_dataset + DataWriter.write(.., [], 0, dtype): a new, empty
\* dataset under the same name
ClearedDataset == <<>>

VARIABLES
  \* --- the writeable array of one IndexedString field (field.data) ---
  index_dataset,    \* field['index']
  values_dataset,   \* field['values']
  raw_values,       \* the staged bytes: _raw_values[:_value_index]
  raw_indices,      \* the staged offsets: _raw_indices[:_index_index]
  accumulated,      \* _accumulated
  completed,        \* complete() has been called on this array
  last,             \* the last call made: its name, argument and outcome
  \* --- one field, a destination field of the same encoding ---
  field,            \* the field: its encoding, its handle's mode, its datasets
  dstfld,           \* the destination field handed to apply_filter / apply_index
  call,             \* the last call on the field: arguments, outcome, state before
  \* --- a DataFrame and a destination DataFrame ---
  df,               \* the DataFrame: its column names in order, its fields
  ddf,              \* the destination DataFrame
  dfcall,           \* the last call on the DataFrame
  \* --- one importer, which makes its target fields in df ---
  importer          \* the importer: its arguments, counters, calls made

wvars == <<index_dataset, values_dataset, raw_values, raw_indices,
           accumulated, completed, last>>

fvars == <<field, dstfld, call>>

dvars == <<df, ddf, dfcall>>

ivars == <<importer>>

vars == <<index_dataset, values_dataset, raw_values, raw_indices,
          accumulated, completed, last, field, dstfld, call, df, ddf, dfcall,
          importer>>

\* what the calls on one part of the model leave alone
notWriter == <<fvars, dvars, ivars>>
notField == <<wvars, dvars, ivars>>
notFrame == <<wvars, fvars, ivars>>

(***************************************************************************)
(* WriteableIndexedFieldArray, as operators on the writer's state          *)
(*   w = [index, values, raw_values, raw_indices, accumulated].            *)
(***************************************************************************)
Writer == [index |-> index_dataset, values |-> values_dataset,
           raw_values |-> raw_values, raw_indices |-> raw_indices,
           accumulated |-> accumulated]

\* WriteableIndexedFieldArray.__init__ on a field the constructor has just made:
\* indexed_string_field_constructor writes an empty 'index' and 'values'
NewWriter == [index |-> <<>>, values |-> <<>>,
              raw_values |-> <<>>, raw_indices |-> <<>>,
              accumulated |-> 0]

\* the inner loop body of write_part: stage one byte, flush a full buffer
WriteByte(w, v) ==
  LET staged == Append(w.raw_values, v)
      full == Len(staged) = ChunkSize
  IN  [w EXCEPT
         !.values = IF full THEN DataWriterWrite(@, staged, Len(staged)) ELSE @,
         !.raw_values = IF full THEN <<>> ELSE staged,
         !.accumulated = @ + 1]

RECURSIVE WriteBytes(_, _)
WriteBytes(w, evalue) ==
  IF evalue = <<>> THEN w
  ELSE WriteBytes(WriteByte(w, Head(evalue)), Tail(evalue))

\* the flush of the offsets buffer: a leading 0 goes first into an empty index
FlushIndices(idx, staged) ==
  DataWriterWrite(IF Len(idx) = 0 THEN DataWriterWrite(idx, <<0>>, 1) ELSE idx,
                  staged, Len(staged))

\* the outer loop body of write_part: one string
WriteString(w, s) ==
  LET w1 == WriteBytes(w, Encode(s))
      staged == Append(w1.raw_indices, w1.accumulated)
      full == Len(staged) = ChunkSize
  IN  [w1 EXCEPT
         !.index = IF full THEN FlushIndices(@, staged) ELSE @,
         !.raw_indices = IF full THEN <<>> ELSE staged]

RECURSIVE write_part(_, _)
write_part(w, part) ==
  IF part = <<>> THEN w
  ELSE write_part(WriteString(w, Head(part)), Tail(part))

complete(w) ==
  [w EXCEPT
     !.values = IF Len(w.raw_values) # 0
                THEN DataWriterWrite(@, w.raw_values, Len(w.raw_values)) ELSE @,
     !.raw_values = <<>>,
     !.index = IF Len(w.raw_indices) # 0
               THEN FlushIndices(@, w.raw_indices) ELSE @,
     !.raw_indices = <<>>]

write(w, part) == complete(write_part(w, part))

\* clear resets _accumulated and the two datasets; _value_index and
\* _index_index (the staged prefixes) are left as they are
clear(w) ==
  [w EXCEPT !.accumulated = 0, !.index = ClearedDataset, !.values = ClearedDataset]

\* WriteableIndexedFieldArray.__len__
ArrayLen(w) == Len(w.index) - 1

\* WriteableIndexedFieldArray.__getitem__(item) for an int item >= 0
ValueError == <<-2>>
GetItem(w, item) ==
  IF item >= Len(w.index) - 1 THEN ValueError
  ELSE LET start == w.index[item + 1]
           stop == w.index[item + 2]
       IN  IF start = stop THEN <<>>
           ELSE Decode(Slice(w.values, start, stop))

\* the rows read one by one, range(len(array))
Rows(w) == [i \in 1..Max(ArrayLen(w), 0) |-> GetItem(w, i - 1)]

\* the field part of the model at rest
NoCall == [op |-> "none"]
NoField == [kind |-> "none"]
NoImporter == [kind |-> "none"]

\* no importer has been made
ImporterIdle == importer = NoImporter
FieldIdle ==
  /\ field = NoField
  /\ dstfld = NoField
  /\ call = NoCall

\* the DataFrame part of the model at rest
EmptyFrame == [columns |-> <<>>, h5group |-> <<>>]
FrameIdle ==
  /\ df = EmptyFrame
  /\ ddf = EmptyFrame
  /\ dfcall = NoCall


(***************************************************************************)
(* The calls on the writeable array of one IndexedString field.            *)
(***************************************************************************)
SetWriter(w) ==
  /\ index_dataset' = w.index
  /\ values_dataset' = w.values
  /\ raw_values' = w.raw_values
  /\ raw_indices' = w.raw_indices
  /\ accumulated' = w.accumulated

\* rows the field would hold were the staged offsets flushed
PendingRows == Max(Len(index_dataset) - 1, 0) + Len(raw_indices)

\* what is recorded of a call: its name, its argument, the error it raised
\* ("none": it returned), and what had been called before it
Call(op, part, err) ==
  [op |-> op, part |-> part, err |-> err,
   fresh |-> Writer = NewWriter,
   after_complete |-> completed,
   after_clear |-> last.op = "clear"]

\* field.data.write_part(part)
WritePart(part) ==
  /\ PendingRows + Len(part) <= MaxRows
  /\ SetWriter(write_part(Writer, part))
  /\ last' = Call("write_part", part, "none")
  /\ UNCHANGED <<completed, notWriter>>

\* field.data.complete()
Complete ==
  /\ SetWriter(complete(Writer))
  /\ completed' = TRUE
  /\ last' = Call("complete", <<>>, "none")
  /\ UNCHANGED notWriter

\* field.data.write(part)
Write(part) ==
  /\ PendingRows + Len(part) <= MaxRows
  /\ SetWriter(write(Writer, part))
  /\ completed' = TRUE
  /\ last' = Call("write", part, "none")
  /\ UNCHANGED notWriter

\* field.data.clear()
Clear ==
  /\ SetWriter(clear(Writer))
  /\ last' = Call("clear", <<>>, "none")
  /\ UNCHANGED <<completed, notWriter>>

WriterIdle ==
  /\ index_dataset = NewWriter.index
  /\ values_dataset = NewWriter.values
  /\ raw_values = NewWriter.raw_values
  /\ raw_indices = NewWriter.raw_indices
  /\ accumulated = NewWriter.accumulated
  /\ completed = FALSE
  /\ last = [op |-> "create", part |-> <<>>, err |-> "none", fresh |-> TRUE,
             after_complete |-> FALSE, after_clear |-> FALSE]

\* the writer, with the variables of the other parts of the model at rest
WriterInit ==
  /\ WriterIdle
  /\ ImporterIdle
  /\ FieldIdle
  /\ FrameIdle

WriterNext ==
  \/ \E part \in Parts : WritePart(part)
  \/ Complete
  \/ \E part \in Parts : Write(part)
  \/ Clear

SpecWriter == WriterInit /\ [][WriterNext]_vars

\* only the two calls of an ingestion stream: write_part and complete
AppendNext ==
  \/ \E part \in Parts : WritePart(part)
  \/ Complete

SpecAppend == WriterInit /\ [][AppendNext]_vars

(***************************************************************************)
(* Properties of the writeable indexed array.                              *)
(***************************************************************************)
\* the bytes of the strings of a part, one after the other
RECURSIVE EncodeAll(_)
EncodeAll(part) ==
  IF part = <<>> THEN <<>> ELSE Encode(Head(part)) \o EncodeAll(Tail(part))

NonDecreasing(s) == \A i \in 1..(Len(s) - 1) : s[i] <= s[i + 1]

\* the offsets and the bytes agree: a leading 0, offsets that never decrease,
\* as many bytes as the last offset says
WellFormed(w) ==
  /\ Len(w.index) >= 1
  /\ w.index[1] = 0
  /\ NonDecreasing(w.index)
  /\ Len(w.values) = Last(w.index)

\* C1: after any finite sequence of write_part and complete calls on an
\* IndexedString field, the empty sequence included, indices[0] = 0, indices
\* is non-decreasing, len(values) = indices[-1] and len(field) = len(indices) - 1
\* (a field of no rows has indices = [0] and length 0).
IndexedStringInvariant ==
  /\ WellFormed(Writer)
  /\ ArrayLen(Writer) = Len(index_dataset) - 1
  /\ ArrayLen(Writer) >= 0

\* what does hold of the code: once complete() has flushed at least one row,
\* and whenever nothing is staged, the stored arrays are well formed
FlushedRowsWellFormed ==
  (raw_values = <<>> /\ raw_indices = <<>> /\ index_dataset # <<>>)
    => WellFormed(Writer)

\* C2: write(S) on an empty writeable field, then reading row i for each i,
\* returns S[i], and the field length is len(S), for every sequence S.
RoundTrip ==
  (last.op = "write" /\ last.fresh)
    => /\ ArrayLen(Writer) = Len(last.part)
       /\ Rows(Writer) = last.part

\* what does hold of the code: the round trip of every S of at least one string
RoundTripNonEmpty ==
  (last.op = "write" /\ last.fresh /\ last.part # <<>>)
    => /\ ArrayLen(Writer) = Len(last.part)
       /\ Rows(Writer) = last.part
       /\ WellFormed(Writer)

\* C3: once complete() has been called, a later write_part fails with a
\* StateError and appends nothing to backing storage.
WritePartAfterCompleteFails ==
  [][(completed /\ last'.op = "write_part")
       => /\ last'.err = "StateError"
          /\ index_dataset' = index_dataset
          /\ values_dataset' = values_dataset]_vars

\* C4: clear() leaves no row in backing storage and nothing staged, so that
\* clear() followed by write(S) leaves the field holding exactly S, with
\* offsets starting at 0.
ClearThenWrite ==
  /\ last.op = "clear"
       => /\ index_dataset = <<>> /\ values_dataset = <<>>
          /\ raw_values = <<>> /\ raw_indices = <<>> /\ accumulated = 0
  /\ (last.op = "write" /\ last.after_clear)
       => /\ Rows(Writer) = last.part
          /\ (index_dataset # <<>> => index_dataset[1] = 0)
          /\ values_dataset = EncodeAll(last.part)

(***************************************************************************)
(* Fields and their array handles (fields.py).                             *)
(*                                                                         *)
(* A field is [kind, write_enabled, values, index]: its encoding, the mode *)
(* of the handle it is reached through, and its datasets; 'index' is the   *)
(* offsets dataset of an IndexedString field and empty for the others.     *)
(* NumericField, FixedStringField, CategoricalField and TimestampField     *)
(* share the code of apply_filter and apply_index, word for word.          *)
(***************************************************************************)
\* most rows of a field
MaxFieldRows == 2
\* most positions in the index list handed to apply_index
MaxIndexLen == 2

FixedKinds == {"numeric", "fixedstring", "categorical", "timestamp"}
\* the element values of a fixed-width field
Elements == {1, 2}
\* the rows of an IndexedString field: '', 'a' and U+00E9
FieldStrings == SeqsUpTo(Chars, 1)

Masks == SeqsUpTo(BOOLEAN, MaxFieldRows)
Positions == (0 - (MaxFieldRows + 1))..MaxFieldRows
IndexLists == SeqsUpTo(Positions, MaxIndexLen)

\* HDF5Field.indexed
Indexed(f) == f.kind = "indexedstring"

\* the datasets of a field, apart from the handle
Storage(f) == [kind |-> f.kind, values |-> f.values, index |-> f.index]

\* ReadOnlyFieldArray.__len__ / WriteableFieldArray.__len__
FixedLen(f) == Len(f.values)

\* ReadOnlyIndexedFieldArray.__len__ and WriteableIndexedFieldArray.__len__
IndexedLen(f) ==
  IF f.write_enabled THEN Len(f.index) - 1 ELSE Max(Len(f.index) - 1, 0)

\* <Field>.__len__: len(self.data)
FieldLen(f) == IF Indexed(f) THEN IndexedLen(f) ELSE FixedLen(f)

\* the rows of a field, read one by one through field.data
FieldRows(f) == IF Indexed(f) THEN Rows(f) ELSE f.values

(***************************************************************************)
(* numpy: array[mask] for a boolean mask, array[index] for integers.       *)
(***************************************************************************)
\* what a call gives back: the error it raised, or "none" and its value
Raised(e) == [err |-> e]
Returned(v) == [err |-> "none", value |-> v]

RECURSIVE Compress(_, _)
Compress(array, mask) ==
  IF array = <<>> THEN <<>>
  ELSE (IF Head(mask) THEN <<Head(array)>> ELSE <<>>)
         \o Compress(Tail(array), Tail(mask))

\* a boolean index that keeps every element, whatever the mask says
BooleanIndexKeepsAll(array, mask) ==
  IF Len(mask) # Len(array) THEN Raised("IndexError")
  ELSE Returned(array)

\* array[filter_to_apply]: the mask must be as long as the array
BooleanIndex(array, mask) ==
  IF Len(mask) # Len(array) THEN Raised("IndexError")
  ELSE Returned(Compress(array, mask))

\* array[index_to_apply]: a position p in -n..-1 counts from the end, one
\* outside -n..n-1 raises
IntegerIndex(array, index) ==
  LET n == Len(array)
  IN  IF \E j \in 1..Len(index) : index[j] < 0 - n \/ index[j] >= n
      THEN Raised("IndexError")
      ELSE Returned([j \in 1..Len(index) |->
              array[(IF index[j] < 0 THEN index[j] + n ELSE index[j]) + 1]])

(***************************************************************************)
(* ops.apply_filter_to_index_values / ops.apply_indices_to_index_values:   *)
(* select or gather the byte spans of the rows, concatenate them in the    *)
(* new order and emit fresh offsets starting at 0; a mask of another       *)
(* length and a position outside [0, length) are IndexErrors.              *)
(***************************************************************************)
\* the bytes of row i (zero-based) of an offsets / bytes pair
Span(indices, values, i) == Slice(values, indices[i + 1], indices[i + 2])

RECURSIVE Repack(_, _, _, _)
\* the pair made of the spans of the rows 'rows', in that order, after 'acc'
Repack(indices, values, rows, acc) ==
  IF rows = <<>> THEN acc
  ELSE LET s == Span(indices, values, Head(rows))
       IN  Repack(indices, values, Tail(rows),
                  [index |-> Append(acc.index, Last(acc.index) + Len(s)),
                   values |-> acc.values \o s])

\* the positions at which a mask is true, in increasing order
RECURSIVE TruePositions(_, _)
TruePositions(mask, i) ==
  IF i >= Len(mask) THEN <<>>
  ELSE (IF mask[i + 1] THEN <<i>> ELSE <<>>) \o TruePositions(mask, i + 1)

apply_filter_to_index_values(mask, indices, values) ==
  IF Len(mask) # Max(Len(indices) - 1, 0) THEN Raised("IndexError")
  ELSE Returned(Repack(indices, values, TruePositions(mask, 0),
                       [index |-> <<0>>, values |-> <<>>]))

apply_indices_to_index_values(index, indices, values) ==
  LET n == Max(Len(indices) - 1, 0)
  IN  IF \E j \in 1..Len(index) : index[j] < 0 \/ index[j] >= n
      THEN Raised("IndexError")
      ELSE Returned(Repack(indices, values, index,
                           [index |-> <<0>>, values |-> <<>>]))

(***************************************************************************)
(* WriteableFieldArray: the array of one dataset, written through at once. *)
(***************************************************************************)
\* WriteableFieldArray.write_part(part)
ArrayWritePart(dataset, part) == DataWriterWrite(dataset, part, Len(part))

\* WriteableFieldArray.write(part); complete() flushes and changes no element
ArrayWrite(dataset, part) == DataWriterWrite(dataset, part, Len(part))

\* WriteableFieldArray.clear()
ArrayClear(dataset) == ClearedDataset

\* a store that writes after the elements the dataset holds, without clear()
StoreResultAppends(dataset, result) ==
  IF Len(dataset) = Len(result) THEN result
  ELSE ArrayWrite(dataset, result)

\* the tail of every apply_filter / apply_index: an array as long as the
\* result is assigned in place, any other is cleared and written
StoreResult(dataset, result) ==
  IF Len(dataset) = Len(result) THEN result
  ELSE ArrayWrite(ArrayClear(dataset), result)

(***************************************************************************)
(* <Field>.apply_filter(filter_to_apply, dstfld) and                       *)
(* <Field>.apply_index(index_to_apply, dstfld), as the datasets of the     *)
(* field written to (dstfld, or the field itself), or the error raised.    *)
(***************************************************************************)
\* NumericField / FixedStringField / CategoricalField / TimestampField
FixedApplyFilter(f, mask, target) ==
  LET result == BooleanIndex(f.values, mask)
  IN  IF result.err # "none" THEN result
      ELSE Returned([target EXCEPT !.values = StoreResult(@, result.value)])

FixedApplyIndex(f, index, target) ==
  LET result == IntegerIndex(f.values, index)
  IN  IF result.err # "none" THEN result
      ELSE Returned([target EXCEPT !.values = StoreResult(@, result.value)])

\* IndexedStringField
IndexedApplyFilter(f, mask, target) ==
  LET dest == apply_filter_to_index_values(mask, f.index, f.values)
  IN  IF dest.err # "none" THEN dest
      ELSE Returned([target EXCEPT
                       !.index = StoreResult(@, dest.value.index),
                       !.values = StoreResult(@, dest.value.values)])

IndexedApplyIndex(f, index, target) ==
  LET dest == apply_indices_to_index_values(index, f.index, f.values)
  IN  IF dest.err # "none" THEN dest
      ELSE Returned([target EXCEPT
                       !.index = StoreResult(@, dest.value.index),
                       !.values = StoreResult(@, dest.value.values)])

apply_filter(f, mask, target) ==
  IF Indexed(f) THEN IndexedApplyFilter(f, mask, target)
  ELSE FixedApplyFilter(f, mask, target)

apply_index(f, index, target) ==
  IF Indexed(f) THEN IndexedApplyIndex(f, index, target)
  ELSE FixedApplyIndex(f, index, target)

\* the handle apply_filter / apply_index write through: a read-only dstfld is
\* replaced by dstfld.writeable()
WriteHandle(f) == [f EXCEPT !.write_enabled = TRUE]

(***************************************************************************)
(* One call on a field.  The field, its handle's mode and the destination  *)
(* (a field create_like has just made, or one that holds rows already) are *)
(* drawn at the start; an action makes one call and records it.            *)
(***************************************************************************)
\* most elements handed to write_part / write of a fixed-width array
MaxArrayPart == 1

\* the datasets of an IndexedString field holding the rows S (data.write(S))
IndexedStorage(S) ==
  LET w == write(NewWriter, S)
  IN  [index |-> w.index, values |-> w.values]

\* the fields of at most n rows
FieldsUpTo(n) ==
  {[kind |-> k, write_enabled |-> we, values |-> v, index |-> <<>>] :
     k \in FixedKinds, we \in BOOLEAN, v \in SeqsUpTo(Elements, n)}
  \cup
  {[kind |-> "indexedstring", write_enabled |-> we,
    values |-> IndexedStorage(S).values, index |-> IndexedStorage(S).index] :
     we \in BOOLEAN, S \in SeqsUpTo(FieldStrings, n)}

\* <Field>.create_like(group, name): an empty field of the same encoding,
\* reached through the write-enabled handle DataFrame.create_* returns
NewField(f) ==
  [kind |-> f.kind, write_enabled |-> TRUE, values |-> <<>>, index |-> <<>>]

ArrayOps == {"write_part", "write", "complete", "clear", "setitem"}
ArrayParts == SeqsUpTo(Elements, MaxArrayPart)

\* what is recorded of a call: its name, its argument, whether a destination
\* was given, the error raised ("none": it returned), the fields before it
Called(op, arg, dst, err) ==
  [op |-> op, arg |-> arg, dst |-> dst, err |-> err,
   field |-> field, dstfld |-> dstfld]

\* field.writeable(): a write-enabled handle on the same datasets
Writeable ==
  /\ call = NoCall
  /\ field' = [field EXCEPT !.write_enabled = TRUE]
  /\ UNCHANGED <<dstfld, call, notField>>

\* field.data.<op>(part) through a read-only handle
\* (ReadOnlyFieldArray, ReadOnlyIndexedFieldArray)
ReadOnlyArrayCall(op, part) ==
  /\ call = NoCall
  /\ ~field.write_enabled
  /\ call' = Called(op, part, FALSE, "PermissionError")
  /\ UNCHANGED <<field, dstfld, notField>>

\* field.data.<op>(part) through the write-enabled handle of a fixed-width
\* field (WriteableFieldArray); data[:] = part needs a part of the same length
WriteableArrayCall(op, part) ==
  /\ call = NoCall
  /\ field.write_enabled
  /\ ~Indexed(field)
  /\ op = "setitem" => Len(part) = Len(field.values)
  /\ field' = [field EXCEPT !.values =
                 CASE op = "write_part" -> ArrayWritePart(@, part)
                   [] op = "write" -> ArrayWrite(@, part)
                   [] op = "complete" -> @
                   [] op = "clear" -> ArrayClear(@)
                   [] op = "setitem" -> part]
  /\ call' = Called(op, part, FALSE, "none")
  /\ UNCHANGED <<dstfld, notField>>

\* the datasets of handle h become those of g; h keeps its mode (the
\* write-enabled handle a transform makes of a read-only one is what it returns)
WithStorage(h, g) == [h EXCEPT !.values = g.values, !.index = g.index]

\* the outcome of a transform on the field written to: dstfld, or the field
Transformed(out, dst) ==
  /\ field' = IF out.err = "none" /\ ~dst
              THEN WithStorage(field, out.value) ELSE field
  /\ dstfld' = IF out.err = "none" /\ dst
               THEN WithStorage(dstfld, out.value) ELSE dstfld
  /\ UNCHANGED notField

\* field.apply_filter(mask) and field.apply_filter(mask, dstfld)
ApplyFilter(mask, dst) ==
  /\ call = NoCall
  /\ LET out == apply_filter(field, mask,
                             WriteHandle(IF dst THEN dstfld ELSE field))
     IN  /\ Transformed(out, dst)
         /\ call' = Called("apply_filter", mask, dst, out.err)

\* field.apply_index(index) and field.apply_index(index, dstfld)
ApplyIndex(index, dst) ==
  /\ call = NoCall
  /\ LET out == apply_index(field, index,
                            WriteHandle(IF dst THEN dstfld ELSE field))
     IN  /\ Transformed(out, dst)
         /\ call' = Called("apply_index", index, dst, out.err)

FieldInit ==
  /\ WriterIdle
  /\ ImporterIdle
  /\ FrameIdle
  /\ field \in FieldsUpTo(MaxFieldRows)
  /\ dstfld \in {NewField(field), WriteHandle(field)}
  /\ call = NoCall

FieldNext ==
  \/ Writeable
  \/ \E op \in ArrayOps, part \in ArrayParts : ReadOnlyArrayCall(op, part)
  \/ \E op \in ArrayOps, part \in ArrayParts : WriteableArrayCall(op, part)
  \/ \E mask \in Masks, dst \in BOOLEAN : ApplyFilter(mask, dst)
  \/ \E index \in IndexLists, dst \in BOOLEAN : ApplyIndex(index, dst)

SpecField == FieldInit /\ [][FieldNext]_vars

(***************************************************************************)
(* Properties of one call on a field.                                      *)
(***************************************************************************)
\* the field the last transform wrote to
Target == IF call.dst THEN dstfld ELSE field

\* the j-th smallest (j >= 1) of a set of numbers
Nth(S, j) == CHOOSE i \in S : Cardinality({k \in S : k < i}) = j - 1

\* the rows of 'rows' at which the mask is true, in increasing order of row
Selected(rows, mask) ==
  LET kept == {i \in 1..Len(rows) : mask[i]}
  IN  [j \in 1..Cardinality(kept) |-> rows[Nth(kept, j)]]

TransformOps == {"apply_filter", "apply_index"}

\* C5: a mutating call through a read-only handle (write, write_part,
\* complete, clear, item assignment on the array; apply_filter / apply_index
\* without a destination on the field) fails with a PermissionError and
\* leaves backing storage unchanged.
ReadOnlyRejectsMutation ==
  (/\ call.op \in ArrayOps \cup TransformOps
   /\ ~call.dst
   /\ ~call.field.write_enabled)
    => /\ call.err = "PermissionError"
       /\ Storage(field) = Storage(call.field)

\* what does hold of the code: the calls on the array of a read-only handle
ReadOnlyArrayRejects ==
  (call.op \in ArrayOps /\ ~call.field.write_enabled)
    => /\ call.err = "PermissionError"
       /\ Storage(field) = Storage(call.field)

\* C6: apply_filter(mask) with len(mask) = len(field) yields exactly the
\* rows i of the source with mask[i] true, in increasing order of i, for
\* every encoding; the result is as long as the mask has true entries.
ApplyFilterSelects ==
  (call.op = "apply_filter" /\ Len(call.arg) = FieldLen(call.field))
    => /\ call.err = "none"
       /\ FieldRows(Target) = Selected(FieldRows(call.field), call.arg)
       /\ FieldLen(Target) =
            Cardinality({i \in 1..Len(call.arg) : call.arg[i]})

\* a filter has been applied that keeps some rows and drops others
ApplyFilterSelectsWitness ==
  /\ call.op = "apply_filter"
  /\ Len(call.arg) = FieldLen(call.field)
  /\ call.err = "none"
  /\ \E i, j \in 1..Len(call.arg) : call.arg[i] /\ ~call.arg[j]

\* the positions of an index list are rows of the field
InRange(index, f) ==
  \A j \in 1..Len(index) : index[j] >= 0 /\ index[j] < FieldLen(f)

\* C8: apply_index([i0..ik]) yields a field of k+1 rows whose row j is row ij
\* of the source, for every encoding, with duplicates and in any order.
ApplyIndexGathers ==
  (call.op = "apply_index" /\ InRange(call.arg, call.field))
    => /\ call.err = "none"
       /\ FieldLen(Target) = Len(call.arg)
       /\ FieldRows(Target) =
            [j \in 1..Len(call.arg) |-> FieldRows(call.field)[call.arg[j] + 1]]

\* an index list with a repeated position, or a descending pair, was applied
ApplyIndexGathersWitness ==
  /\ call.op = "apply_index"
  /\ InRange(call.arg, call.field)
  /\ call.err = "none"
  /\ Len(call.arg) >= 2
  /\ call.arg[1] >= call.arg[2]

\* C9: apply_index with a position outside [0, len(field)), negative or
\* >= len(field), fails with IndexError and leaves the field and the
\* destination unchanged.
ApplyIndexRejectsOutOfRange ==
  (call.op = "apply_index" /\ ~InRange(call.arg, call.field))
    => /\ call.err = "IndexError"
       /\ Storage(field) = Storage(call.field)
       /\ Storage(dstfld) = Storage(call.dstfld)

\* what does hold of the code: a position >= len(field) is an IndexError
ApplyIndexRejectsBeyondEnd ==
  (/\ call.op = "apply_index"
   /\ \E j \in 1..Len(call.arg) : call.arg[j] >= Max(FieldLen(call.field), 0))
    => /\ call.err = "IndexError"
       /\ Storage(field) = Storage(call.field)
       /\ Storage(dstfld) = Storage(call.dstfld)

(***************************************************************************)
(* HDF5DataFrame (dataframe.py): [columns, h5group], the names of the      *)
(* fields in insertion order and the field stored under each name.         *)
(***************************************************************************)
\* most rows of a field of a DataFrame
MaxFrameRows == 2

FrameKinds == {"numeric", "indexedstring"}
\* the rows of an IndexedString field of a DataFrame: 'a' and U+00E9
FrameStrings == {<<97>>, <<233>>}

FrameMasks == SeqsUpTo(BOOLEAN, MaxFrameRows)
FramePositions == (0 - (MaxFrameRows + 1))..MaxFrameRows
FrameIndexLists == SeqsUpTo(FramePositions, MaxIndexLen)

\* the fields of n rows a DataFrame.create_* and data.write make
FrameFields(n) ==
  {[kind |-> "numeric", write_enabled |-> TRUE, values |-> v, index |-> <<>>] :
     v \in [1..n -> Elements]}
  \cup
  {[kind |-> "indexedstring", write_enabled |-> TRUE,
    values |-> IndexedStorage(S).values, index |-> IndexedStorage(S).index] :
     S \in [1..n -> FrameStrings]}

\* the DataFrame of the fields fs, named in order by 'names'
Frame(names, fs) ==
  [columns |-> names,
   h5group |-> [nm \in {names[i] : i \in 1..Len(names)} |->
                  fs[CHOOSE i \in 1..Len(names) : names[i] = nm]]]

\* HDF5DataFrame.__contains__(name)
Contains(frame, name) == \E i \in 1..Len(frame.columns) : frame.columns[i] = name

\* <Field>.create_like(ddf, name): ddf.create_<kind>(name, ...), which the
\* field constructor refuses when the name is in ddf (base_field_contructor)
create_like(f, frame, name) ==
  IF Contains(frame, name) THEN Raised("ValueError")
  ELSE Returned(
         [columns |-> Append(frame.columns, name),
          h5group |-> [nm \in DOMAIN frame.h5group \cup {name} |->
                         IF nm = name THEN NewField(f) ELSE frame.h5group[nm]]])

\* field.apply_filter(arg, target) / field.apply_index(arg, target)
FieldApply(op, f, arg, target) ==
  IF op = "apply_filter" THEN apply_filter(f, arg, WriteHandle(target))
  ELSE apply_index(f, arg, WriteHandle(target))

\* the outcome of a call on a DataFrame: the error raised, if any, and the two
\* DataFrames as the call leaves them
Outcome(err, frame, dest) == [err |-> err, df |-> frame, ddf |-> dest]

\* the loop of apply_filter / apply_index with a destination: for each field
\* in order, create_like in ddf, then the field's transform into the new field
RECURSIVE ApplyInto(_, _, _, _, _)
ApplyInto(op, frame, names, arg, dest) ==
  IF names = <<>> THEN Outcome("none", frame, dest)
  ELSE LET name == Head(names)
           f == frame.h5group[name]
           made == create_like(f, dest, name)
       IN  IF made.err # "none" THEN Outcome(made.err, frame, dest)
           ELSE LET newfld == made.value.h5group[name]
                    out == FieldApply(op, f, arg, newfld)
                IN  IF out.err # "none" THEN Outcome(out.err, frame, made.value)
                    ELSE ApplyInto(op, frame, Tail(names), arg,
                           [made.value EXCEPT
                              !.h5group[name] = WithStorage(newfld, out.value)])

\* the loop of apply_filter / apply_index without a destination: each field in
\* order is transformed in place
RECURSIVE ApplyInPlace(_, _, _, _, _)
ApplyInPlace(op, frame, names, arg, dest) ==
  IF names = <<>> THEN Outcome("none", frame, dest)
  ELSE LET name == Head(names)
           f == frame.h5group[name]
           out == FieldApply(op, f, arg, f)
       IN  IF out.err # "none" THEN Outcome(out.err, frame, dest)
           ELSE ApplyInPlace(op, [frame EXCEPT
                                    !.h5group[name] = WithStorage(f, out.value)],
                             Tail(names), arg, dest)

\* a DataFrame transform that rewrites the source whether or not a
\* destination is given
FrameApplyInPlaceOnly(op, frame, arg, dst, dest) ==
  ApplyInPlace(op, frame, frame.columns, arg, dest)

\* HDF5DataFrame.apply_filter(arg, ddf) / HDF5DataFrame.apply_index(arg, ddf)
FrameApply(op, frame, arg, dst, dest) ==
  IF dst THEN ApplyInto(op, frame, frame.columns, arg, dest)
  ELSE ApplyInPlace(op, frame, frame.columns, arg, dest)

\* what is recorded of a call on the DataFrame: name, argument, whether a
\* destination was given, the error raised, the DataFrame returned, the two
\* DataFrames before the call
FrameCalled(op, arg, dst, err) ==
  [op |-> op, arg |-> arg, dst |-> dst, err |-> err,
   returned |-> IF err # "none" THEN "nothing" ELSE IF dst THEN "ddf" ELSE "self",
   df |-> df, ddf |-> ddf]

\* the two DataFrames after a call
FrameOutcome(out) ==
  /\ df' = out.df
  /\ ddf' = out.ddf
  /\ UNCHANGED notFrame

\* df.apply_filter(mask) and df.apply_filter(mask, ddf)
FrameApplyFilter(mask, dst) ==
  /\ dfcall = NoCall
  /\ LET out == FrameApply("apply_filter", df, mask, dst, ddf)
     IN  /\ FrameOutcome(out)
         /\ dfcall' = FrameCalled("apply_filter", mask, dst, out.err)

\* df.apply_index(index) and df.apply_index(index, ddf)
FrameApplyIndex(index, dst) ==
  /\ dfcall = NoCall
  /\ LET out == FrameApply("apply_index", df, index, dst, ddf)
     IN  /\ FrameOutcome(out)
         /\ dfcall' = FrameCalled("apply_index", index, dst, out.err)

\* the fields of n rows of one encoding
FrameFieldsOf(kind, n) == {f \in FrameFields(n) : f.kind = kind}

\* a DataFrame of no field, of one field, or of a Numeric field "a" and an
\* IndexedString field "b" of as many rows; a destination that is empty or
\* holds a field named "b" already
FrameInit ==
  /\ WriterIdle
  /\ ImporterIdle
  /\ FieldIdle
  /\ \E n \in 0..MaxFrameRows :
       \/ df = EmptyFrame
       \/ \E f \in FrameFields(n) : df = Frame(<<"a">>, <<f>>)
       \/ \E f \in FrameFieldsOf("numeric", n),
             g \in FrameFieldsOf("indexedstring", n) :
            df = Frame(<<"a", "b">>, <<f, g>>)
  /\ ddf \in {EmptyFrame,
              Frame(<<"b">>, <<CHOOSE g \in FrameFieldsOf("numeric", 1) : TRUE>>)}
  /\ dfcall = NoCall

FrameNext ==
  \/ \E mask \in FrameMasks, dst \in BOOLEAN : FrameApplyFilter(mask, dst)
  \/ \E index \in FrameIndexLists, dst \in BOOLEAN : FrameApplyIndex(index, dst)

SpecFrame == FrameInit /\ [][FrameNext]_vars

(***************************************************************************)
(* Properties of one call on a DataFrame.                                  *)
(***************************************************************************)
\* the names of the fields of a DataFrame
Names(frame) == {frame.columns[i] : i \in 1..Len(frame.columns)}

\* the number of rows that can be read from a field
RowCount(f) == Len(FieldRows(f))

\* the argument of the last call suits every field of the source: a mask of
\* as many entries as the field has rows, positions that are rows of the field
ValidArgument ==
  \A name \in Names(dfcall.df) :
    LET f == dfcall.df.h5group[name]
    IN  IF dfcall.op = "apply_filter" THEN Len(dfcall.arg) = RowCount(f)
        ELSE \A j \in 1..Len(dfcall.arg) :
               dfcall.arg[j] >= 0 /\ dfcall.arg[j] < RowCount(f)

\* no field of the source is named like a field the destination holds
NoNameClash == Names(dfcall.df) \cap Names(dfcall.ddf) = {}

\* the rows the last call is to give for a field of rows 'rows'
Expected(rows) ==
  IF dfcall.op = "apply_filter" THEN Selected(rows, dfcall.arg)
  ELSE [j \in 1..Len(dfcall.arg) |-> rows[dfcall.arg[j] + 1]]

\* 'result' holds, for every field of the source, a field of that name and
\* encoding with the rows expected of the last call
HoldsTransformed(result) ==
  \A name \in Names(dfcall.df) :
    /\ name \in Names(result)
    /\ result.h5group[name].kind = dfcall.df.h5group[name].kind
    /\ FieldRows(result.h5group[name]) =
         Expected(FieldRows(dfcall.df.h5group[name]))

FrameEffectInPlaceWitness ==
  /\ dfcall.op \in TransformOps
  /\ ValidArgument
  /\ ~dfcall.dst
  /\ dfcall.err = "none"
  /\ Len(dfcall.df.columns) = 2
  /\ \A name \in Names(dfcall.df) :
       FieldRows(df.h5group[name]) # FieldRows(dfcall.df.h5group[name])

\* every field of the DataFrame has the same length
Aligned(frame) ==
  \A m, n \in Names(frame) :
    FieldLen(frame.h5group[m]) = FieldLen(frame.h5group[n])

\* the fields of 'result' named like those of 'source' are of one length, and
\* row j of each of them is the same row of its field in 'source'
AlignedWith(result, source) ==
  LET names == Names(source) \cap Names(result)
  IN  /\ \A m, n \in names :
           FieldLen(result.h5group[m]) = FieldLen(result.h5group[n])
      /\ \A m \in names :
           \E src \in [1..RowCount(result.h5group[m]) ->
                         1..RowCount(source.h5group[m])] :
             \A n \in names : \A j \in 1..RowCount(result.h5group[n]) :
               FieldRows(result.h5group[n])[j] =
                 FieldRows(source.h5group[n])[src[j]]

\* the DataFrame the last call wrote to
FrameTarget == IF dfcall.dst THEN ddf ELSE df

RowAlignmentWhenReturned ==
  (dfcall.op \in TransformOps /\ Aligned(dfcall.df) /\ dfcall.err = "none")
    => AlignedWith(FrameTarget, dfcall.df)

(***************************************************************************)
(* The columns of two DataFrames of one dataset, "df" and "df2" (held in   *)
(* the variables df and ddf).  A DataFrame is [columns, handles, h5group]: *)
(* the names registered in _columns in insertion order, the field object   *)
(* registered under each name, and the field groups of its backing         *)
(* storage.  A field object is named by the group it was made for.         *)
(***************************************************************************)
\* most rows of a field of these DataFrames
MaxColumnRows == 1

FrameIds == {"df", "df2"}
ColumnNames == {"a", "b"}

\* a Python dict as the sequence of its <<key, value>> pairs in insertion
\* order: d[k] = v
DictSet(d, k, v) ==
  IF \E i \in 1..Len(d) : d[i][1] = k
  THEN [i \in 1..Len(d) |-> IF d[i][1] = k THEN <<k, v>> ELSE d[i]]
  ELSE Append(d, <<k, v>>)

\* dict(pairs)
RECURSIVE DictOf(_)
DictOf(pairs) ==
  IF pairs = <<>> THEN <<>>
  ELSE DictSet(DictOf(SubSeq(pairs, 1, Len(pairs) - 1)),
               Last(pairs)[1], Last(pairs)[2])

\* zip(xs, ys)
Zip(xs, ys) == [i \in 1..Min(Len(xs), Len(ys)) |-> <<xs[i], ys[i]>>]

\* the key tables handed to create_categorical: {'x': 1, 'y': 2} and a table
\* that gives two names the same code, {'x': 1, 'y': 1}
InjectiveKey == <<(<<"x", 1>>), (<<"y", 2>>)>>
SharedCodeKey == <<(<<"x", 1>>), (<<"y", 1>>)>>
KeyTables == {InjectiveKey, SharedCodeKey}

\* the field group a field constructor leaves in backing storage
FieldGroup(kind, nformat, strlen, key_values, key_names) ==
  [kind |-> kind, write_enabled |-> TRUE, values |-> <<>>, index |-> <<>>,
   nformat |-> nformat, strlen |-> strlen,
   key_values |-> key_values, key_names |-> key_names]

\* what create_* is called with: the factory and its arguments
NumericSpec(nformat) == [kind |-> "numeric", nformat |-> nformat]
FixedStringSpec(length) == [kind |-> "fixedstring", strlen |-> length]
IndexedStringSpec == [kind |-> "indexedstring"]
CategoricalSpec(nformat, key) ==
  [kind |-> "categorical", nformat |-> nformat, key |-> key, is_dict |-> TRUE]

\* create_categorical with a key that is no dict (None)
NoKeySpec(nformat) ==
  [kind |-> "categorical", nformat |-> nformat, key |-> <<>>, is_dict |-> FALSE]

FieldSpecs ==
  {NumericSpec("int32"), FixedStringSpec(1), IndexedStringSpec, NoKeySpec("int8")}
  \cup {CategoricalSpec("int8", key) : key \in KeyTables}

\* numeric_field_constructor, fixed_string_field_constructor,
\* indexed_string_field_constructor after base_field_contructor
NewGroup(spec) ==
  CASE spec.kind = "numeric" ->
         FieldGroup("numeric", spec.nformat, 0, <<>>, <<>>)
    [] spec.kind = "fixedstring" ->
         FieldGroup("fixedstring", "none", spec.strlen, <<>>, <<>>)
    [] spec.kind = "indexedstring" ->
         FieldGroup("indexedstring", "none", 0, <<>>, <<>>)
    [] spec.kind = "categorical" ->
         FieldGroup("categorical", spec.nformat, 0, <<>>, <<>>)
    [] spec.kind = "timestamp" ->
         FieldGroup("timestamp", "float64", 0, <<>>, <<>>)

\* categorical_field_constructor: key_values and key_names of key.items()
WithKey(group, key) ==
  [group EXCEPT !.key_values = [i \in 1..Len(key) |-> key[i][2]],
                !.key_names = [i \in 1..Len(key) |-> key[i][1]]]

\* the two DataFrames
World(frame, dest) == [df |-> frame, df2 |-> dest]

\* a field object: the DataFrame that made it and the group it is bound to
Handle(d, name) == [dataframe |-> d, group |-> name]

\* HDF5Field.name: self._field.name, the path of the group from the root
FieldName(h) ==
  CASE h.dataframe = "df" /\ h.group = "a" -> "/df/a"
    [] h.dataframe = "df" /\ h.group = "b" -> "/df/b"
    [] h.dataframe = "df2" /\ h.group = "a" -> "/df2/a"
    [] h.dataframe = "df2" /\ h.group = "b" -> "/df2/b"

\* field.name[field.name.index('/', 1) + 1:]
AfterSecondSlash(h) == h.group

\* a DataFrame with no field
NoColumns == [columns |-> <<>>, handles |-> <<>>, h5group |-> <<>>]

\* the group a field object is bound to
Deref(w, h) == w[h.dataframe].h5group[h.group]

\* self._h5group.create_group(name) with the datasets of the constructor
PutGroup(frame, name, group) ==
  [frame EXCEPT !.h5group =
     [nm \in DOMAIN frame.h5group \cup {name} |->
        IF nm = name THEN group ELSE frame.h5group[nm]]]

\* self._columns[name] = field
PutColumn(frame, name, h) ==
  [frame EXCEPT
     !.columns = IF Contains(frame, name) THEN @ ELSE Append(@, name),
     !.handles = [nm \in DOMAIN frame.handles \cup {name} |->
                    IF nm = name THEN h ELSE frame.handles[nm]]]

\* the outcome of a call on the two DataFrames
Failed(e, w) == [err |-> e, w |-> w]
Done(w) == [err |-> "none", w |-> w]

\* create_field without the test of base_field_contructor for the name
create_field_replaces(w, d, name, spec) ==
  LET made == [w EXCEPT ![d] = PutGroup(@, name, NewGroup(spec))]
  IN  IF spec.kind = "categorical" /\ ~spec.is_dict
      THEN Failed("AttributeError", made)
      ELSE LET group == IF spec.kind = "categorical"
                        THEN WithKey(NewGroup(spec), spec.key)
                        ELSE NewGroup(spec)
           IN  Done([w EXCEPT ![d] =
                  PutColumn(PutGroup(@, name, group), name,
                            Handle(d, name))])

\* HDF5DataFrame.create_numeric / create_fixed_string / create_indexed_string
\* / create_categorical (name, ...) on DataFrame d: the constructor refuses a
\* name in d, makes the group, writes its datasets, then the field object is
\* registered
create_field(w, d, name, spec) ==
  IF Contains(w[d], name) \/ name \in DOMAIN w[d].h5group
  THEN Failed("ValueError", w)
  ELSE LET made == [w EXCEPT ![d] = PutGroup(@, name, NewGroup(spec))]
       IN  IF spec.kind = "categorical" /\ ~spec.is_dict
           THEN Failed("AttributeError", made)
           ELSE LET group == IF spec.kind = "categorical"
                             THEN WithKey(NewGroup(spec), spec.key)
                             ELSE NewGroup(spec)
                IN  Done([w EXCEPT ![d] =
                       PutColumn(PutGroup(@, name, group), name,
                                 Handle(d, name))])

\* CategoricalField.keys: dict(zip(key_values, key_names))
Keys(group) == DictOf(Zip(group.key_values, group.key_names))

\* {v: k for k, v in self.keys.items()}
Inverted(keys) == DictOf([i \in 1..Len(keys) |-> <<keys[i][2], keys[i][1]>>])

\* the arguments <Field>.create_like hands to the factory of the target
LikeSpec(group) ==
  CASE group.kind = "numeric" -> NumericSpec(group.nformat)
    [] group.kind = "fixedstring" -> FixedStringSpec(group.strlen)
    [] group.kind = "indexedstring" -> IndexedStringSpec
    [] group.kind = "categorical" ->
         CategoricalSpec(group.nformat, Inverted(Keys(group)))

\* field.create_like(d, name)
field_create_like(w, h, d, name) == create_field(w, d, name, LikeSpec(Deref(w, h)))

\* nfield.indices.write(field.indices[:]); nfield.values.write(field.values[:])
\* for an indexed field, nfield.data.write(field.data[:]) for any other
CopyContents(w, h, nfield) ==
  LET src == Deref(w, h)
  IN  [w EXCEPT ![nfield.dataframe].h5group[nfield.group] =
         IF Indexed(src)
         THEN [@ EXCEPT !.index = ArrayWrite(@, src.index),
                        !.values = ArrayWrite(@, src.values)]
         ELSE [@ EXCEPT !.values = ArrayWrite(@, src.values)]]

\* the body shared by __setitem__, add and copy: create_like in d under
\* name, write the contents, register the new field
CopyInto(w, h, d, name) ==
  LET made == field_create_like(w, h, d, name)
  IN  IF made.err # "none" THEN made
      ELSE Done([CopyContents(made.w, h, Handle(d, name))
                   EXCEPT ![d] = PutColumn(@, name, Handle(d, name))])

\* __setitem__ registering the assigned field itself, without a copy
setitem_aliases(w, d, name, h) ==
  IF Contains(w[d], name)
  THEN Failed("ValueError", w)
  ELSE Done([w EXCEPT ![d] = PutColumn(@, name, h)])

\* HDF5DataFrame.__setitem__(name, field) on d
setitem(w, d, name, h) == CopyInto(w, h, d, name)

\* HDF5DataFrame.add(field) on d
add(w, d, h) == CopyInto(w, h, d, AfterSecondSlash(h))

\* a DataFrame without the entry of _columns under name
WithoutColumn(frame, name) ==
  [frame EXCEPT
     !.columns = SelectSeq(@, LAMBDA nm : nm # name),
     !.handles = [nm \in DOMAIN @ \ {name} |-> @[nm]]]

\* a DataFrame without the group of backing storage under name
WithoutGroup(frame, name) ==
  [frame EXCEPT !.h5group = [nm \in DOMAIN @ \ {name} |-> @[nm]]]

\* HDF5DataFrame.drop(name) on d: del self._columns[name] raises KeyError
\* for a name that is not a key, before anything is deleted
drop(w, d, name) ==
  IF ~Contains(w[d], name) THEN Failed("KeyError", w)
  ELSE Done([w EXCEPT ![d] = WithoutGroup(WithoutColumn(@, name), name)])

\* HDF5DataFrame.__delitem__(name) on d
delitem(w, d, name) ==
  IF ~Contains(w[d], name) THEN Failed("ValueError", w)
  ELSE Done([w EXCEPT ![d] = WithoutColumn(WithoutGroup(@, name), name)])

\* HDF5DataFrame.delete_field(field) on d
delete_field(w, d, h) ==
  IF h.dataframe # d THEN Failed("ValueError", w)
  ELSE delitem(w, d, FieldName(h))

\* copy(field, dataframe, name); the last line assigns into the copy of the
\* dict that the columns property returns
copy(w, h, d, name) == CopyInto(w, h, d, name)

\* move(field, dest_df, name)
move(w, h, d, name) ==
  LET copied == copy(w, h, d, name)
  IN  IF copied.err # "none" THEN copied
      ELSE drop(copied.w, h.dataframe, FieldName(h))

\* field.data.write(part): one element, or one string for an indexed field
data_write(w, h) ==
  LET f == Deref(w, h)
      opened == [index |-> f.index, values |-> f.values,
                 raw_values |-> <<>>, raw_indices |-> <<>>,
                 accumulated |-> IF f.index # <<>> THEN Last(f.index) ELSE 0]
      written == write(opened, <<(<<97>>)>>)
  IN  [w EXCEPT ![h.dataframe].h5group[h.group] =
         IF Indexed(f)
         THEN [@ EXCEPT !.index = written.index, !.values = written.values]
         ELSE [@ EXCEPT !.values = ArrayWrite(@, <<1>>)]]

(***************************************************************************)
(* One call on the columns of the two DataFrames, and a write to a field   *)
(* after a call that copied one.                                           *)
(***************************************************************************)
NoHandle == Handle("none", "none")
NoSpec == [kind |-> "none"]

\* the two DataFrames now
Now == World(df, ddf)

\* the field objects registered in a DataFrame
Registered(w) ==
  UNION {{w[d].handles[nm] : nm \in DOMAIN w[d].handles} : d \in FrameIds}

\* h.data.write repeated n times
RECURSIVE Written(_, _, _)
Written(w, h, n) == IF n = 0 THEN w ELSE Written(data_write(w, h), h, n - 1)

\* the key tables create_categorical stores
StoredSpecs == FieldSpecs \ {NoKeySpec("int8")}

\* the DataFrames made by create_* and data.write: df with no field, with a
\* field "a", or with "a" and a Numeric "b"; df2 with no field or a field "a"
ColumnWorlds ==
  LET none == World(NoColumns, NoColumns)
      rows == 0..MaxColumnRows
      inDf == {none}
         \cup {Written(create_field(none, "df", "a", s).w, Handle("df", "a"), n) :
                 s \in StoredSpecs, n \in rows}
      inDfToo == inDf
         \cup {Written(create_field(w, "df", "b", NumericSpec("int32")).w,
                       Handle("df", "b"), n) :
                 w \in inDf \ {none}, n \in rows}
  IN  inDfToo
      \cup {Written(create_field(w, "df2", "a", s).w, Handle("df2", "a"), n) :
              w \in inDfToo, s \in StoredSpecs, n \in rows}

\* what is recorded of a call: its name, the DataFrame it is made on, the
\* name, field object and factory arguments it is given, the error raised,
\* the call before it, the two DataFrames before it
ColumnsCalled(op, d, name, h, spec, err) ==
  [op |-> op, d |-> d, name |-> name, h |-> h, spec |-> spec, err |-> err,
   after |-> dfcall.op, w |-> Now]

\* the two DataFrames after the call
ColumnsOutcome(w) ==
  /\ df' = w.df
  /\ ddf' = w.df2
  /\ UNCHANGED notFrame

\* d.create_numeric(name, ...), d.create_categorical(name, ...), ...
CreateField(d, name, spec) ==
  /\ dfcall = NoCall
  /\ LET out == create_field(Now, d, name, spec)
     IN  /\ ColumnsOutcome(out.w)
         /\ dfcall' = ColumnsCalled("create", d, name, NoHandle, spec, out.err)

\* h.create_like(d, name)
CreateLike(h, d, name) ==
  /\ dfcall = NoCall
  /\ LET out == field_create_like(Now, h, d, name)
     IN  /\ ColumnsOutcome(out.w)
         /\ dfcall' = ColumnsCalled("create_like", d, name, h, NoSpec, out.err)

\* d[name] = h
SetItem(d, name, h) ==
  /\ dfcall = NoCall
  /\ LET out == setitem(Now, d, name, h)
     IN  /\ ColumnsOutcome(out.w)
         /\ dfcall' = ColumnsCalled("setitem", d, name, h, NoSpec, out.err)

\* d.add(h)
Add(d, h) ==
  /\ dfcall = NoCall
  /\ LET out == add(Now, d, h)
     IN  /\ ColumnsOutcome(out.w)
         /\ dfcall' = ColumnsCalled("add", d, AfterSecondSlash(h), h, NoSpec,
                                    out.err)

\* del d[name]
DelItem(d, name) ==
  /\ dfcall = NoCall
  /\ LET out == delitem(Now, d, name)
     IN  /\ ColumnsOutcome(out.w)
         /\ dfcall' = ColumnsCalled("delitem", d, name, NoHandle, NoSpec, out.err)

\* d.drop(name)
Drop(d, name) ==
  /\ dfcall = NoCall
  /\ LET out == drop(Now, d, name)
     IN  /\ ColumnsOutcome(out.w)
         /\ dfcall' = ColumnsCalled("drop", d, name, NoHandle, NoSpec, out.err)

\* d.delete_field(h)
DeleteField(d, h) ==
  /\ dfcall = NoCall
  /\ LET out == delete_field(Now, d, h)
     IN  /\ ColumnsOutcome(out.w)
         /\ dfcall' = ColumnsCalled("delete_field", d, "none", h, NoSpec, out.err)

\* copy(h, d, name)
Copy(h, d, name) ==
  /\ dfcall = NoCall
  /\ LET out == copy(Now, h, d, name)
     IN  /\ ColumnsOutcome(out.w)
         /\ dfcall' = ColumnsCalled("copy", d, name, h, NoSpec, out.err)

\* move(h, d, name)
Move(h, d, name) ==
  /\ dfcall = NoCall
  /\ LET out == move(Now, h, d, name)
     IN  /\ ColumnsOutcome(out.w)
         /\ dfcall' = ColumnsCalled("move", d, name, h, NoSpec, out.err)

\* h.data.write(part), as the first call or after a d[name] = field or a
\* copy that returned
DataWrite(h) ==
  /\ \/ dfcall = NoCall
     \/ /\ dfcall.op \in {"setitem", "copy"}
        /\ dfcall.err = "none"
        /\ dfcall.after = "none"
  /\ ColumnsOutcome(data_write(Now, h))
  /\ dfcall' = ColumnsCalled("data.write", h.dataframe, h.group, h, NoSpec, "none")

ColumnsInit ==
  /\ WriterIdle
  /\ ImporterIdle
  /\ FieldIdle
  /\ \E w \in ColumnWorlds : df = w.df /\ ddf = w.df2
  /\ dfcall = NoCall

ColumnsNext ==
  \/ \E d \in FrameIds, name \in ColumnNames, spec \in FieldSpecs :
       CreateField(d, name, spec)
  \/ \E h \in Registered(Now), d \in FrameIds, name \in ColumnNames :
       CreateLike(h, d, name)
  \/ \E h \in Registered(Now), d \in FrameIds, name \in ColumnNames :
       SetItem(d, name, h)
  \/ \E h \in Registered(Now), d \in FrameIds, name \in ColumnNames :
       Copy(h, d, name)
  \/ \E h \in Registered(Now), d \in FrameIds, name \in ColumnNames :
       Move(h, d, name)
  \/ \E h \in Registered(Now), d \in FrameIds : Add(d, h)
  \/ \E h \in Registered(Now), d \in FrameIds : DeleteField(d, h)
  \/ \E d \in FrameIds, name \in ColumnNames : DelItem(d, name)
  \/ \E d \in FrameIds, name \in ColumnNames : Drop(d, name)
  \/ \E h \in Registered(Now) : DataWrite(h)

SpecColumns == ColumnsInit /\ [][ColumnsNext]_vars

(***************************************************************************)
(* Properties of the calls on the columns.                                 *)
(***************************************************************************)
\* the two DataFrames before the last call
Before == dfcall.w

ColumnOps == {"create", "create_like", "setitem", "add", "delitem", "drop",
              "delete_field", "copy", "move", "data.write"}

\* the last call was one of 'ops' on the columns
LastCall(ops) == dfcall.op \in ops \cap ColumnOps

\* section 7 of the specification files a duplicate field name and a field
\* that is not owned under the ValueError class
DuplicateNameError == "ValueError"
OwnershipError == "ValueError"

\* HDF5DataFrame.contains_field(field): some registered object is the field
contains_field(frame, h) == \E nm \in DOMAIN frame.handles : frame.handles[nm] = h

KeyPairs(group) ==
  {<<group.key_names[i], group.key_values[i]>> :
     i \in 1..Min(Len(group.key_names), Len(group.key_values))}

\* the field create_like, d[name] = field, add, copy or move has made
Made == Now[dfcall.d].h5group[dfcall.name]

\* the field handed to the last call, as it was before the call
Given == Deref(Before, dfcall.h)

\* C12: create_like(target, name) creates in target an empty field (zero
\* rows) whose encoding and metadata are those of the source field: the same
\* numeric dtype, the same fixed string length, and for a Categorical field
\* the same key table, every string-to-code pair of the source.
CreateLikeKeepsMetadata ==
  (LastCall({"create_like"}) /\ ~Contains(Before[dfcall.d], dfcall.name))
    => /\ dfcall.err = "none"
       /\ Contains(Now[dfcall.d], dfcall.name)
       /\ FieldLen(Made) = 0
       /\ FieldRows(Made) = <<>>
       /\ Made.kind = Given.kind
       /\ Made.nformat = Given.nformat
       /\ Made.strlen = Given.strlen
       /\ KeyPairs(Made) = KeyPairs(Given)

\* what does hold of the code: the encoding is kept, no row can be read, and
\* a key table that gives every name a code of its own is kept
CreateLikeKeepsEncoding ==
  (LastCall({"create_like"}) /\ ~Contains(Before[dfcall.d], dfcall.name))
    => /\ dfcall.err = "none"
       /\ FieldRows(Made) = <<>>
       /\ Made.kind = Given.kind
       /\ Made.nformat = Given.nformat
       /\ Made.strlen = Given.strlen
       /\ Cardinality({p[2] : p \in KeyPairs(Given)}) = Cardinality(KeyPairs(Given))
            => KeyPairs(Made) = KeyPairs(Given)

\* the fields registered in the two DataFrames, as <<DataFrame, name>>
Columns(w) == {<<d, nm>> : d \in FrameIds, nm \in ColumnNames} \cap
              {c \in FrameIds \X ColumnNames : Contains(w[c[1]], c[2])}

DelItemAbsentKeyError ==
  (LastCall({"delitem"}) /\ ~Contains(Before[dfcall.d], dfcall.name))
    => /\ dfcall.err = "KeyError"
       /\ Now = Before

\* what does hold of the code: the call fails and changes nothing
DelItemAbsentFails ==
  (LastCall({"delitem"}) /\ ~Contains(Before[dfcall.d], dfcall.name))
    => /\ dfcall.err = "ValueError"
       /\ Now = Before

\* C15: df.delete_field(field) for a field that df does not own fails with
\* an OwnershipError and leaves df and the owner of the field unchanged; for
\* a field that df owns it removes the field from df.
DeleteFieldByOwner ==
  LastCall({"delete_field"})
    => IF dfcall.h.dataframe # dfcall.d
       THEN /\ dfcall.err = OwnershipError
            /\ Now = Before
       ELSE /\ dfcall.err = "none"
            /\ ~Contains(Now[dfcall.d], dfcall.h.group)
            /\ ~contains_field(Now[dfcall.d], dfcall.h)

\* what does hold of the code: a field of another DataFrame is refused
DeleteFieldRefusesForeign ==
  (LastCall({"delete_field"}) /\ dfcall.h.dataframe # dfcall.d)
    => /\ dfcall.err = OwnershipError
       /\ Now = Before

\* C16: metadata and storage of a field live and die together: after any
\* sequence of create_*, add, df[name] = field, del df[name], drop,
\* delete_field, copy and move, failures included, the names in the column
\* mapping of a DataFrame are the field groups in its backing storage.
ColumnsMatchStorage ==
  \A d \in FrameIds : Names(Now[d]) = DOMAIN Now[d].h5group

\* what does hold of the code: every call that returns keeps the two equal
ColumnsMatchStorageWhenReturned ==
  (LastCall(ColumnOps) /\ dfcall.err = "none")
    => \A d \in FrameIds : Names(Now[d]) = DOMAIN Now[d].h5group

\* C17: move(field, dest_df, name) transfers the field: dest_df[name] holds
\* the contents the field had and the DataFrame the field was in no longer
\* contains it, name and storage; copy(field, dest_df, name) leaves the
\* source in place and gives dest_df[name] equal contents in storage of its
\* own.
MoveTransfersCopyDuplicates ==
  (LastCall({"move", "copy"}) /\ ~Contains(Before[dfcall.d], dfcall.name))
    => /\ dfcall.err = "none"
       /\ Contains(Now[dfcall.d], dfcall.name)
       /\ FieldRows(Made) = FieldRows(Given)
       /\ Now[dfcall.d].handles[dfcall.name] # dfcall.h
       /\ dfcall.op = "move"
            => /\ ~Contains(Now[dfcall.h.dataframe], dfcall.h.group)
               /\ dfcall.h.group \notin DOMAIN Now[dfcall.h.dataframe].h5group
       /\ dfcall.op = "copy"
            => /\ Contains(Now[dfcall.h.dataframe], dfcall.h.group)
               /\ Deref(Now, dfcall.h) = Given

\* what does hold of the code: copy duplicates, and a write after it changes
\* no other field
CopyDuplicates ==
  /\ (LastCall({"copy"}) /\ ~Contains(Before[dfcall.d], dfcall.name))
       => /\ dfcall.err = "none"
          /\ FieldRows(Made) = FieldRows(Given)
          /\ Now[dfcall.d].handles[dfcall.name] # dfcall.h
          /\ Deref(Now, dfcall.h) = Given
  /\ (LastCall({"data.write"}) /\ dfcall.after = "copy")
       => \A c \in Columns(Before) :
            c # <<dfcall.d, dfcall.name>>
              => Deref(Now, Now[c[1]].handles[c[2]])
                   = Deref(Before, Before[c[1]].handles[c[2]])

(***************************************************************************)
(* merge(left, right, dest, left_on, right_on, how=how): the rows of two   *)
(* DataFrames joined on a key column and written into a third.  left has   *)
(* the Numeric fields "k" and "v", right the Numeric field "k" and the     *)
(* IndexedString field "s"; both are merged on "k" with every field of     *)
(* each side and the default suffixes.                                     *)
(***************************************************************************)
\* the longest key column
MaxMergeRows == 2

\* the values of the key columns
MergeKeys == {1, 2, 3}

\* the values of how
Hows == {"inner", "left", "right", "outer"}

\* the null of pandas in a column of row positions
NaN == -1

\* what the cast of a null to np.int32 can produce
InvalidCast == {-2147483647 - 1, 0}

\* the first row only of a key column that holds v
FirstKeyPosition(ks, v, i) ==
  IF \E n \in i..Len(ks) : ks[n] = v
  THEN <<CHOOSE n \in i..Len(ks) : ks[n] = v /\ \A m \in i..(n - 1) : ks[m] # v>>
  ELSE <<>>

\* the positions (from 1) of the rows of a key column that hold v
RECURSIVE KeyPositions(_, _, _)
KeyPositions(ks, v, i) ==
  IF i > Len(ks) THEN <<>>
  ELSE (IF ks[i] = v THEN <<i>> ELSE <<>>) \o KeyPositions(ks, v, i + 1)

\* pd.merge, how = 'left' (keep) or 'inner': the rows <<l_i, r_i>> in the
\* order of the left keys
RECURSIVE LeftJoin(_, _, _, _)
LeftJoin(lk, rk, i, keep) ==
  IF i > Len(lk) THEN <<>>
  ELSE LET js == KeyPositions(rk, lk[i], 1)
       IN  (IF js = <<>>
            THEN (IF keep THEN <<(<<i - 1, NaN>>)>> ELSE <<>>)
            ELSE [n \in 1..Len(js) |-> <<i - 1, js[n] - 1>>])
           \o LeftJoin(lk, rk, i + 1, keep)

\* pd.merge, how = 'right': the rows in the order of the right keys
RECURSIVE RightJoin(_, _, _)
RightJoin(lk, rk, j) ==
  IF j > Len(rk) THEN <<>>
  ELSE LET is == KeyPositions(lk, rk[j], 1)
       IN  (IF is = <<>>
            THEN <<(<<NaN, j - 1>>)>>
            ELSE [n \in 1..Len(is) |-> <<is[n] - 1, j - 1>>])
           \o RightJoin(lk, rk, j + 1)

\* pd.merge, how = 'outer': the rows key by key, the keys in sorted order
RECURSIVE OuterJoin(_, _, _)
OuterJoin(lk, rk, keys) ==
  IF keys = {} THEN <<>>
  ELSE LET v == CHOOSE x \in keys : \A y \in keys : x <= y
           is == KeyPositions(lk, v, 1)
           js == KeyPositions(rk, v, 1)
       IN  (IF js = <<>> THEN [n \in 1..Len(is) |-> <<is[n] - 1, NaN>>]
            ELSE IF is = <<>> THEN [n \in 1..Len(js) |-> <<NaN, js[n] - 1>>]
            ELSE [n \in 1..(Len(is) * Len(js)) |->
                    <<is[((n - 1) \div Len(js)) + 1] - 1,
                      js[((n - 1) % Len(js)) + 1] - 1>>])
           \o OuterJoin(lk, rk, keys \ {v})

\* the values of a key column
KeysOf(ks) == {ks[i] : i \in 1..Len(ks)}

\* a join that sorts the rows by key, whatever how is
pd_merge_sorted(lk, rk, how) == OuterJoin(lk, rk, KeysOf(lk) \cup KeysOf(rk))

\* a join that keeps the unmatched rows of the left, whatever how is
pd_merge_left(lk, rk, how) == LeftJoin(lk, rk, 1, TRUE)

\* pd.merge(left=l_df, right=r_df, left_on='l_k', right_on='r_k', how=how):
\* the columns l_i and r_i of the result, row by row
pd_merge(lk, rk, how) ==
  CASE how = "inner" -> LeftJoin(lk, rk, 1, FALSE)
    [] how = "left"  -> LeftJoin(lk, rk, 1, TRUE)
    [] how = "right" -> RightJoin(lk, rk, 1)
    [] how = "outer" -> OuterJoin(lk, rk, KeysOf(lk) \cup KeysOf(rk))

\* df['l_i'].to_numpy(dtype=np.int32): a null is cast to g
ToDestMap(column, g) ==
  [n \in 1..Len(column) |-> IF column[n] = NaN THEN g ELSE column[n]]

\* np.logical_not(df['l_i'].isnull())
ToDestFilt(column) == [n \in 1..Len(column) |-> column[n] # NaN]

\* ops.safe_map_values(data, map, filter): the mapped element, 0 where the
\* filter is false
safe_map_values(data, map, filt) ==
  [n \in 1..Len(map) |-> IF filt[n] THEN data[map[n] + 1] ELSE 0]

\* ops.safe_map_indexed_values(indices, values, map, filter): the mapped
\* strings, the empty string where the filter is false
RECURSIVE safe_map_indexed_values(_, _, _, _, _)
safe_map_indexed_values(indices, values, map, filt, acc) ==
  IF map = <<>> THEN acc
  ELSE LET s == IF Head(filt) THEN Span(indices, values, Head(map)) ELSE <<>>
       IN  safe_map_indexed_values(indices, values, Tail(map), Tail(filt),
             [index |-> Append(acc.index, Last(acc.index) + Len(s)),
              values |-> acc.values \o s])

\* f in left_fields_
InFields(f, fields) == \E n \in 1..Len(fields) : fields[n] = f

\* dest_f += suffix
Suffixed(f, suffix) ==
  CASE f = "k" /\ suffix = "_l" -> "k_l"
    [] f = "k" /\ suffix = "_r" -> "k_r"
    [] f = "v" /\ suffix = "_l" -> "v_l"
    [] f = "v" /\ suffix = "_r" -> "v_r"
    [] f = "s" /\ suffix = "_l" -> "s_l"
    [] f = "s" /\ suffix = "_r" -> "s_r"
    [] f = "valid" /\ suffix = "_l" -> "valid_l"
    [] f = "valid" /\ suffix = "_r" -> "valid_r"

\* d.data.write(v) / d.indices.write(i); d.values.write(v) on the field
\* 'name' of dest
WriteMapped(w, name, src, map, filt) ==
  [w EXCEPT !["dest"].h5group[name] =
     IF Indexed(src)
     THEN LET iv == safe_map_indexed_values(src.index, src.values, map, filt,
                      [index |-> <<0>>, values |-> <<>>])
          IN  [@ EXCEPT !.index = ArrayWrite(@, iv.index),
                        !.values = ArrayWrite(@, iv.values)]
     ELSE [@ EXCEPT !.values =
             ArrayWrite(@, safe_map_values(src.values, map, filt))]]

\* a loop that suffixes a name only when dest holds the name already
RECURSIVE MapFieldsSuffixLater(_, _, _, _, _, _, _)
MapFieldsSuffixLater(w, side, fields, others, suffix, map, filt) ==
  IF fields = <<>> THEN Done(w)
  ELSE LET f == Head(fields)
           dest_f == IF Contains(w.dest, f) THEN Suffixed(f, suffix) ELSE f
           made == field_create_like(w, Handle(side, f), "dest", dest_f)
       IN  IF made.err # "none" THEN made
           ELSE MapFieldsSuffixLater(
                  WriteMapped(made.w, dest_f, Deref(w, Handle(side, f)),
                              map, filt),
                  side, Tail(fields), others, suffix, map, filt)

\* the loop over the fields of one side: each is created in dest, under its
\* name or the suffixed name, and written through the map of the side
RECURSIVE MapFields(_, _, _, _, _, _, _)
MapFields(w, side, fields, others, suffix, map, filt) ==
  IF fields = <<>> THEN Done(w)
  ELSE LET f == Head(fields)
           dest_f == IF InFields(f, others) THEN Suffixed(f, suffix) ELSE f
           made == field_create_like(w, Handle(side, f), "dest", dest_f)
       IN  IF made.err # "none" THEN made
           ELSE MapFields(WriteMapped(made.w, dest_f,
                                      Deref(w, Handle(side, f)), map, filt),
                          side, Tail(fields), others, suffix, map, filt)

\* a flag for every side, whether or not a row of it is missing
AlwaysFlagged(filt) == TRUE

\* np.all(filter) == False
NotAll(filt) == \E n \in 1..Len(filt) : ~filt[n]

\* if np.all(filter) == False: dest.create_numeric('valid' + suffix, 'bool')
\* and d.data.write(filter)
WriteValid(w, suffix, filt) ==
  IF ~NotAll(filt) THEN Done(w)
  ELSE LET name == Suffixed("valid", suffix)
           made == create_field(w, "dest", name, NumericSpec("bool"))
       IN  IF made.err # "none" THEN made
           ELSE Done([made.w EXCEPT !["dest"].h5group[name].values =
                        ArrayWrite(@, filt)])

\* the two sides written one after the other: the fields of the right, its
\* flag, the fields of the left, its flag
WriteSides(w, left_fields, right_fields, l_map, l_filt, r_map, r_filt) ==
  LET rights == MapFields(w, "right", right_fields, left_fields, "_r",
                          r_map, r_filt)
  IN  IF rights.err # "none" THEN rights
      ELSE LET rvalid == WriteValid(rights.w, "_r", r_filt)
           IN  IF rvalid.err # "none" THEN rvalid
               ELSE LET lefts == MapFields(rvalid.w, "left", left_fields,
                                           right_fields, "_l", l_map, l_filt)
                    IN  IF lefts.err # "none" THEN lefts
                        ELSE WriteValid(lefts.w, "_l", l_filt)

\* merge(left, right, dest, 'k', 'k', how=how), a null cast to g: the
\* outcome, the joined rows and the maps and filters of the two sides
merge(w, how, g) ==
  LET joined == pd_merge(w.left.h5group["k"].values,
                         w.right.h5group["k"].values, how)
      l_i == [n \in 1..Len(joined) |-> joined[n][1]]
      r_i == [n \in 1..Len(joined) |-> joined[n][2]]
      out == WriteSides(w, w.left.columns, w.right.columns,
                        ToDestMap(l_i, g), ToDestFilt(l_i),
                        ToDestMap(r_i, g), ToDestFilt(r_i))
  IN  [err |-> out.err, w |-> out.w, joined |-> joined,
       l_to_d_map |-> ToDestMap(l_i, g), l_to_d_filt |-> ToDestFilt(l_i),
       r_to_d_map |-> ToDestMap(r_i, g), r_to_d_filt |-> ToDestFilt(r_i)]

(***************************************************************************)
(* One call of merge on two DataFrames built by create_* and data.write.   *)
(***************************************************************************)
\* left, right and dest
MergeWorld(left, right, dest) == [left |-> left, right |-> right, dest |-> dest]

\* the key columns merged on
KeyColumns == UNION {[1..n -> MergeKeys] : n \in 0..MaxMergeRows}

\* field.data.write(part) on a Numeric field
WriteNumeric(w, h, part) ==
  [w EXCEPT ![h.dataframe].h5group[h.group].values = ArrayWrite(@, part)]

\* field.data.write(part) on an IndexedString field, one string of one
\* character to the row
WriteStrings(w, h, n) ==
  IF n = 0 THEN w
  ELSE [w EXCEPT ![h.dataframe].h5group[h.group] =
          [@ EXCEPT !.index = [i \in 1..(n + 1) |-> i - 1],
                    !.values = [i \in 1..n |-> 96 + i]]]

\* left: the key column "k" and the Numeric field "v", row i holding 10 + i
LeftFrame(ks) ==
  LET none == MergeWorld(NoColumns, NoColumns, NoColumns)
      k == create_field(none, "left", "k", NumericSpec("int32")).w
      v == create_field(k, "left", "v", NumericSpec("int32")).w
  IN  WriteNumeric(WriteNumeric(v, Handle("left", "k"), ks),
                   Handle("left", "v"), [i \in 1..Len(ks) |-> 10 + i]).left

\* right: the key column "k" and the IndexedString field "s"
RightFrame(ks) ==
  LET none == MergeWorld(NoColumns, NoColumns, NoColumns)
      k == create_field(none, "right", "k", NumericSpec("int32")).w
      s == create_field(k, "right", "s", IndexedStringSpec).w
  IN  WriteStrings(WriteNumeric(s, Handle("right", "k"), ks),
                   Handle("right", "s"), Len(ks)).right

\* what is recorded of merge(df, ddf, dest, 'k', 'k', how=how), and the two
\* DataFrames after it
MergeReturns(how, out) ==
  /\ dfcall' = [op |-> "merge", how |-> how, err |-> out.err,
                left |-> out.w.left, right |-> out.w.right,
                dest |-> out.w.dest, joined |-> out.joined,
                l_to_d_map |-> out.l_to_d_map,
                l_to_d_filt |-> out.l_to_d_filt,
                r_to_d_map |-> out.r_to_d_map,
                r_to_d_filt |-> out.r_to_d_filt]
  /\ df' = out.w.left
  /\ ddf' = out.w.right

\* merge(df, ddf, dest, 'k', 'k', how=how) with an empty dest
Merge(how, g) ==
  /\ dfcall = NoCall
  /\ MergeReturns(how, merge(MergeWorld(df, ddf, NoColumns), how, g))
  /\ UNCHANGED notFrame

\* what is recorded of a DataFrame merged with itself
MergeSelfReturns(d, how, out) ==
  dfcall' = [op |-> "merge_self", d |-> d, how |-> how,
             err |-> out.err,
             left |-> out.w.left, right |-> out.w.right,
             dest |-> out.w.dest, joined |-> out.joined,
             l_to_d_map |-> out.l_to_d_map,
             l_to_d_filt |-> out.l_to_d_filt,
             r_to_d_map |-> out.r_to_d_map,
             r_to_d_filt |-> out.r_to_d_filt]

\* the DataFrame a self-merge is called on
MergeSource(d) == IF d = "left" THEN df ELSE ddf

\* merge(d, d, dest, 'k', 'k', how=how) with an empty dest: a DataFrame
\* merged with itself
MergeSelf(d, how, g) ==
  /\ dfcall = NoCall
  /\ MergeSelfReturns(d, how,
       merge(MergeWorld(MergeSource(d), MergeSource(d), NoColumns), how, g))
  /\ UNCHANGED <<df, ddf>>
  /\ UNCHANGED notFrame

MergeInit ==
  /\ WriterIdle
  /\ ImporterIdle
  /\ FieldIdle
  /\ \E lk \in KeyColumns, rk \in KeyColumns :
       df = LeftFrame(lk) /\ ddf = RightFrame(rk)
  /\ dfcall = NoCall

MergeNext ==
  \/ \E how \in Hows, g \in InvalidCast : Merge(how, g)
  \/ \E d \in {"left", "right"}, how \in Hows, g \in InvalidCast :
       MergeSelf(d, how, g)

SpecMerge == MergeInit /\ [][MergeNext]_vars

(***************************************************************************)
(* Properties of merge.                                                    *)
(***************************************************************************)
Merged == dfcall.op = "merge"

\* the destination DataFrame after the call
Dest == dfcall.dest

\* the key columns of the two sides
LeftKey == df.h5group["k"].values
RightKey == ddf.h5group["k"].values

\* the rows of the destination, from 1
DestRows == 1..Len(dfcall.joined)

\* the left row and the right row (from 0) a destination row was made of
LeftRow(j) == dfcall.l_to_d_map[j]
RightRow(j) == dfcall.r_to_d_map[j]

\* destination row j has a source row on the left / on the right
LeftValid(j) == dfcall.l_to_d_filt[j]
RightValid(j) == dfcall.r_to_d_filt[j]

\* the rows (from 0) of a key column that hold v
RowsOf(ks, v) == {i - 1 : i \in {n \in 1..Len(ks) : ks[n] = v}}

\* every field of the destination has one row per joined row
DestLengths ==
  \A nm \in DOMAIN Dest.h5group : RowCount(Dest.h5group[nm]) = Len(dfcall.joined)

\* destination row j holds the values of left row l in the fields of the left
HoldsLeft(j, l) ==
  /\ Dest.h5group["k_l"].values[j] = LeftKey[l + 1]
  /\ Dest.h5group["v"].values[j] = df.h5group["v"].values[l + 1]

\* destination row j holds the values of right row r in the fields of the right
HoldsRight(j, r) ==
  /\ Dest.h5group["k_r"].values[j] = RightKey[r + 1]
  /\ FieldRows(Dest.h5group["s"])[j] = FieldRows(ddf.h5group["s"])[r + 1]

Unmatched(ks, others) == {i - 1 : i \in {n \in 1..Len(ks) : ks[n] \notin KeysOf(others)}}

MergeInnerDropsWitness ==
  /\ Merged
  /\ dfcall.how = "inner"
  /\ Unmatched(LeftKey, RightKey) # {}
  /\ Unmatched(RightKey, LeftKey) # {}
  /\ DestRows # {}

\* the flag field of a side, with the column of the joined rows it is about
FlagOf(name, side) ==
  /\ (name \in DOMAIN Dest.h5group)
       <=> (\E j \in DestRows : dfcall.joined[j][side] = NaN)
  /\ (name \in Names(Dest)) <=> (name \in DOMAIN Dest.h5group)
  /\ name \in DOMAIN Dest.h5group
       => /\ Dest.h5group[name].values
               = [j \in DestRows |-> dfcall.joined[j][side] # NaN]
          /\ Dest.h5group[name].nformat = "bool"

LeftFields == df.columns
RightFields == ddf.columns

\* the right fields are written first, the left fields after them
OnBothSides == {f \in Names(df) : f \in Names(ddf)}

\* the rows of field nm of the destination are those of 'rows' (from 1),
\* row j taken from row 'from(j)' of the source where the side has a row
FromRight(nm, f) ==
  /\ nm \in Names(Dest)
  /\ \A j \in DestRows :
       RightValid(j) => FieldRows(Dest.h5group[nm])[j]
                          = FieldRows(ddf.h5group[f])[RightRow(j) + 1]

FromLeft(nm, f) ==
  /\ nm \in Names(Dest)
  /\ \A j \in DestRows :
       LeftValid(j) => FieldRows(Dest.h5group[nm])[j]
                         = FieldRows(df.h5group[f])[LeftRow(j) + 1]

MergedSelf == dfcall.op = "merge_self"

\* the DataFrame that was merged with itself
Source == dfcall.left

\* the values of a key column are all distinct
Distinct(ks) == \A i, j \in 1..Len(ks) : ks[i] = ks[j] => i = j

FailedOnNameClash ==
  /\ dfcall.op \in {"apply_filter", "apply_index"}
  /\ dfcall.dst
  /\ ValidArgument
  /\ ~NoNameClash
  /\ dfcall.err = "ValueError"

FrameClashKeepsOldFields ==
  FailedOnNameClash
    => /\ df = dfcall.df
       /\ \A nm \in Names(dfcall.ddf) :
            nm \in Names(ddf) /\ ddf.h5group[nm] = dfcall.ddf.h5group[nm]
       /\ Contains(dfcall.ddf, Head(dfcall.df.columns)) => ddf = dfcall.ddf

(***************************************************************************)
(* An IndexedString field written through field.data, transformed in       *)
(* place, then appended to through the same field.data.  The property      *)
(* IndexedStringField.data makes the array once and keeps it: the array    *)
(* that appends is the one that wrote the rows, with the _accumulated it   *)
(* had, while the transform stores through field.indices and field.values. *)
(***************************************************************************)
\* the field behind field.data, as the transforms take it
DataField ==
  [kind |-> "indexedstring", write_enabled |-> TRUE,
   index |-> index_dataset, values |-> values_dataset]

\* what is recorded of a step: its name, the part written, the rows the
\* field held after the transform
Step(op, part, rows) == [op |-> op, part |-> part, rows |-> rows]

\* field.data.write(part) on the new field
Populate(part) ==
  /\ last.op = "create"
  /\ Len(part) <= MaxFieldRows
  /\ SetWriter(write(Writer, part))
  /\ completed' = TRUE
  /\ last' = Step("data.write", part, <<>>)
  /\ UNCHANGED notWriter

\* the datasets as a transform in place leaves them; the array of field.data
\* keeps its buffers and its _accumulated
Rewritten(out, op) ==
  /\ out.err = "none"
  /\ index_dataset' = out.value.index
  /\ values_dataset' = out.value.values
  /\ last' = Step(op, <<>>, Rows(out.value))
  /\ UNCHANGED <<raw_values, raw_indices, accumulated, completed, notWriter>>

\* field.apply_filter(mask)
FilterInPlace(mask) ==
  /\ last.op = "data.write"
  /\ Rewritten(IndexedApplyFilter(DataField, mask, DataField), "apply_filter")

\* field.apply_index(index)
IndexInPlace(index) ==
  /\ last.op = "data.write"
  /\ Rewritten(IndexedApplyIndex(DataField, index, DataField), "apply_index")

\* field.data.write_part(part) after the transform
AppendPart(part) ==
  /\ last.op \in {"apply_filter", "apply_index"}
  /\ Len(part) <= MaxArrayPart
  /\ SetWriter(write_part(Writer, part))
  /\ last' = Step("data.write_part", part, last.rows)
  /\ UNCHANGED <<completed, notWriter>>

\* field.data.complete() after the write_part
AppendComplete ==
  /\ last.op = "data.write_part"
  /\ SetWriter(complete(Writer))
  /\ last' = Step("data.complete", last.part, last.rows)
  /\ UNCHANGED <<completed, notWriter>>

TransformAppendNext ==
  \/ \E part \in Parts : Populate(part)
  \/ \E mask \in Masks : FilterInPlace(mask)
  \/ \E index \in IndexLists : IndexInPlace(index)
  \/ \E part \in Parts : AppendPart(part)
  \/ AppendComplete

SpecTransformAppend == WriterInit /\ [][TransformAppendNext]_vars

\* C27: appending after a transform in place keeps the offsets consistent:
\* on a writable IndexedString field populated through data.write, an
\* apply_filter or apply_index in place followed by data.write_part(T) and
\* data.complete() leaves len(values) = indices[-1], and the appended rows
\* read back as T after the transformed rows.
AppendAfterTransform ==
  last.op = "data.complete"
    => /\ index_dataset # <<>>
       /\ Len(values_dataset) = Last(index_dataset)
       /\ Rows(Writer) = last.rows \o last.part

\* what does hold of the code: the append is consistent when the transform
\* left as many bytes as data.write had written
AppendAfterSameSize ==
  (last.op = "data.complete" /\ last.part # <<>>
     /\ Len(EncodeAll(last.rows)) + Len(EncodeAll(last.part)) = accumulated)
    => /\ Len(values_dataset) = Last(index_dataset)
       /\ Rows(Writer) = last.rows \o last.part

(***************************************************************************)
(* The importers of field_importers.py.  An importer makes its target      *)
(* fields in df when it is constructed; import_part turns the cells of one *)
(* chunk of a column into rows of the fields; complete ends the stream.    *)
(***************************************************************************)
\* the most rows a stream brings, and the most cells of a chunk
MaxImportRows == 2

\* HDF5DataFrame.create_timestamp arguments
TimestampSpec == [kind |-> "timestamp"]

\* the name the importer is given, and f"{name}{suffix}" for its companions
ImportName == "a"
Companion(suffix) ==
  CASE suffix = "_valid" -> "a_valid"
    [] suffix = "_set" -> "a_set"
    [] suffix = "_day" -> "a_day"
    [] suffix = "_freetext" -> "a_freetext"

\* an array object of a field: field.data, field.indices or field.values
Array(name, wrapper) == <<name, wrapper>>

\* df.create_*(name, ...) by an importer: the DataFrame with the new field
Created(frame, name, spec) ==
  create_field(World(frame, NoColumns), "df", name, spec).w.df

\* WriteableFieldArray.write_part(part) on field.data / field.values
\* (dataset "values") or field.indices (dataset "index") of the field 'name'
WritePartTo(frame, name, dataset, part) ==
  [frame EXCEPT !.h5group[name][dataset] = ArrayWritePart(@, part)]

\* the importer object: its class, its arguments, the names of the
\* companion fields it made ("none": not made), its running offset, the
\* arrays written to and not completed since, the arrays completed by
\* complete(), the cells imported, and the last call with the DataFrame
\* before it
Importer(kind, mode, invalid_value, keys, flag, day, free, open) ==
  [kind |-> kind, mode |-> mode, invalid_value |-> invalid_value,
   keys |-> keys, flag |-> flag, day |-> day, free |-> free,
   accumulated |-> 0, open |-> open, closed |-> {},
   cells |-> <<>>, chunks |-> 0,
   op |-> "init", chunk |-> <<>>, err |-> "none", before |-> NoColumns]

\* the outcome of import_part: the error raised, the DataFrame, the running
\* offset, the arrays written to
Imported(err, frame, running, written) ==
  [err |-> err, df |-> frame, accumulated |-> running, written |-> written]

(***************************************************************************)
(* NumericImporter                                                         *)
(***************************************************************************)
\* the cells of a numeric column: two numbers, an empty cell, a cell that
\* is no number
NumericCells == {"12", "-3", "", "x"}

Parseable(cell) == cell \in {"12", "-3"}

ParseInt(cell) == CASE cell = "12" -> 12 [] cell = "-3" -> 0 - 3

ValidationModes == {"strict", "allow_empty", "relaxed"}

InvalidValues == {0, 99}

\* ops.transform_int(..., invalid_value, validation_mode, ...): the elements
\* and the validity of the cells, or the error of the first cell the mode
\* does not admit
transform_int(cells, invalid_value, mode) ==
  IF \E i \in 1..Len(cells) :
       /\ ~Parseable(cells[i])
       /\ \/ mode = "strict"
          \/ mode = "allow_empty" /\ cells[i] # ""
  THEN [err |-> "ValueError", elements |-> <<>>, validity |-> <<>>]
  ELSE [err |-> "none",
        elements |-> [i \in 1..Len(cells) |->
                        IF Parseable(cells[i]) THEN ParseInt(cells[i])
                        ELSE invalid_value],
        validity |-> [i \in 1..Len(cells) |-> Parseable(cells[i])]]

\* NumericImporter.__init__: the field, and the flag field when it is asked
\* for and the mode is 'allow_empty' or 'relaxed'
NewNumericImporter(mode, invalid_value, create_flag_field) ==
  LET made == Created(NoColumns, ImportName, NumericSpec("int32"))
      flagged == IF mode \in {"allow_empty", "relaxed"}
                 THEN create_flag_field ELSE FALSE
  IN  [imp |-> Importer("numeric", mode, invalid_value, <<>>,
                        IF flagged THEN Companion("_valid") ELSE "none",
                        "none", "none", {}),
       df |-> IF flagged
              THEN Created(made, Companion("_valid"), NumericSpec("bool"))
              ELSE made]

\* an import_part that writes the elements whether or not the flag field
\* exists, and the invalid_value in place of the validity
NumericImportPartUnflagged(imp, frame, cells) ==
  LET t == transform_int(cells, imp.invalid_value, imp.mode)
  IN  IF t.err # "none" THEN Imported(t.err, frame, imp.accumulated, {})
      ELSE Imported("none",
             WritePartTo(frame, ImportName, "values", t.elements),
             imp.accumulated, {Array(ImportName, "data")})

\* NumericImporter.import_part for an integer dtype
NumericImportPart(imp, frame, cells) ==
  LET t == transform_int(cells, imp.invalid_value, imp.mode)
  IN  IF t.err # "none" THEN Imported(t.err, frame, imp.accumulated, {})
      ELSE LET main == WritePartTo(frame, ImportName, "values", t.elements)
           IN  IF imp.flag # "none"
               THEN Imported("none",
                      WritePartTo(main, imp.flag, "values", t.validity),
                      imp.accumulated,
                      {Array(ImportName, "data"), Array(imp.flag, "data")})
               ELSE Imported("none", main, imp.accumulated,
                             {Array(ImportName, "data")})

\* NumericImporter.complete: the arrays complete() is called on
NumericComplete(imp) ==
  {Array(ImportName, "data")}
    \cup (IF imp.flag # "none" THEN {Array(imp.flag, "data")} ELSE {})

(***************************************************************************)
(* The cells of a text column as the reader hands them over: column_inds   *)
(* holds a leading 0 and the end of each cell relative to the chunk,       *)
(* column_vals the bytes of the cells one after the other.                 *)
(***************************************************************************)
TextCells == {"", "foo", "bar", "baz"}

\* the bytes of a cell
CellBytes(cell) ==
  CASE cell = "" -> <<>>
    [] cell = "foo" -> <<102, 111, 111>>
    [] cell = "bar" -> <<98, 97, 114>>
    [] cell = "baz" -> <<98, 97, 122>>

RECURSIVE ColumnVals(_)
ColumnVals(cells) ==
  IF cells = <<>> THEN <<>>
  ELSE CellBytes(Head(cells)) \o ColumnVals(Tail(cells))

\* column_inds[col_idx, :written_row_count + 1]
ColumnInds(cells) ==
  [i \in 1..(Len(cells) + 1) |-> Len(ColumnVals(SubSeq(cells, 1, i - 1)))]

(***************************************************************************)
(* IndexedStringImporter                                                   *)
(***************************************************************************)
\* IndexedStringImporter.__init__: the field, chunk_accumulated = 0, and
\* the leading 0 written through field.indices
NewIndexedStringImporter ==
  LET made == Created(NoColumns, ImportName, IndexedStringSpec)
  IN  [imp |-> Importer("string", "none", 0, <<>>, "none", "none", "none",
                        {Array(ImportName, "indices")}),
       df |-> WritePartTo(made, ImportName, "index", <<0>>)]

\* IndexedStringImporter.write_part(index, values)
StringWritePart(frame, index, values) ==
  WritePartTo(WritePartTo(frame, ImportName, "index", Tail(index)),
              ImportName, "values", values)

\* an import_part that writes the offsets of the chunk as they come, without
\* the bytes of the chunks before
StringImportPartRelative(imp, frame, cells) ==
  LET inds == ColumnInds(cells)
      n == Len(cells)
  IN  Imported("none",
        StringWritePart(frame, inds, Slice(ColumnVals(cells), 0, inds[n + 1])),
        imp.accumulated + inds[n + 1],
        {Array(ImportName, "indices"), Array(ImportName, "values")})

\* IndexedStringImporter.import_part
StringImportPart(imp, frame, cells) ==
  LET inds == ColumnInds(cells)
      n == Len(cells)
      index == [i \in 1..(n + 1) |-> inds[i] + imp.accumulated]
      values == Slice(ColumnVals(cells), 0, inds[n + 1])
  IN  Imported("none", StringWritePart(frame, index, values),
               imp.accumulated + inds[n + 1],
               {Array(ImportName, "indices"), Array(ImportName, "values")})

\* IndexedStringImporter.complete: field.indices and field.values
StringComplete(imp) ==
  {Array(ImportName, "indices"), Array(ImportName, "values")}

(***************************************************************************)
(* CategoricalImporter and LeakyCategoricalImporter                        *)
(***************************************************************************)
\* the categories handed to the importer: {'foo': 0, 'bar': 1}
Categories == <<(<<"foo", 0>>), (<<"bar", 1>>)>>

InCategories(key, cell) == \E i \in 1..Len(key) : key[i][1] = cell

CodeOf(key, cell) ==
  key[CHOOSE i \in 1..Len(key) : key[i][1] = cell][2]

\* the code the leaky importer stores for a cell that is no category
LeakyCode == 0 - 1

\* ops.categorical_transform: the code of each cell; a cell that is no
\* category is an error
categorical_transform(cells, key) ==
  IF \E i \in 1..Len(cells) : ~InCategories(key, cells[i])
  THEN [err |-> "ValueError", chunk |-> <<>>]
  ELSE [err |-> "none",
        chunk |-> [i \in 1..Len(cells) |-> CodeOf(key, cells[i])]]

\* the cells of a chunk that are no category, each '' where the cell is one
Leaked(cells, key) ==
  [i \in 1..Len(cells) |->
     IF InCategories(key, cells[i]) THEN "" ELSE cells[i]]

\* ops.leaky_categorical_transform(chunk, freetext_indices_chunk,
\* freetext_values_chunk, ...): the codes, -1 for a cell that is no category;
\* the ends of the free text of each row relative to the chunk after a
\* leading 0; the bytes of the free text at the head of an array as long as
\* the column's bytes
leaky_categorical_transform(cells, key) ==
  LET text == ColumnVals(Leaked(cells, key))
  IN  [chunk |-> [i \in 1..Len(cells) |->
                    IF InCategories(key, cells[i])
                    THEN CodeOf(key, cells[i]) ELSE LeakyCode],
       freetext_indices_chunk |-> ColumnInds(Leaked(cells, key)),
       freetext_values_chunk |->
         text \o [i \in 1..(Len(ColumnVals(cells)) - Len(text)) |-> 0]]

\* CategoricalImporter.__init__
NewCategoricalImporter ==
  [imp |-> Importer("categorical", "none", 0, Categories,
                    "none", "none", "none", {}),
   df |-> Created(NoColumns, ImportName, CategoricalSpec("int8", Categories))]

\* CategoricalImporter.import_part
CategoricalImportPart(imp, frame, cells) ==
  LET t == categorical_transform(cells, imp.keys)
  IN  IF t.err # "none" THEN Imported(t.err, frame, imp.accumulated, {})
      ELSE Imported("none",
                    WritePartTo(frame, ImportName, "values", t.chunk),
                    imp.accumulated, {Array(ImportName, "data")})

\* CategoricalImporter.complete
CategoricalComplete(imp) == {Array(ImportName, "data")}

\* LeakyCategoricalImporter.__init__: the categorical field, the free text
\* field, freetext_index_accumulated = 0, and the leading 0 written through
\* other_values_field.indices
NewLeakyCategoricalImporter ==
  LET made == Created(Created(NoColumns, ImportName,
                              CategoricalSpec("int8", Categories)),
                      Companion("_freetext"), IndexedStringSpec)
  IN  [imp |-> Importer("leaky", "none", 0, Categories, "none", "none",
                        Companion("_freetext"),
                        {Array(Companion("_freetext"), "indices")}),
       df |-> WritePartTo(made, Companion("_freetext"), "index", <<0>>)]

\* an import_part that writes freetext_indices_chunk as it comes, without
\* freetext_index_accumulated
LeakyImportPartRelative(imp, frame, cells) ==
  LET t == leaky_categorical_transform(cells, imp.keys)
      n == Len(cells)
      freetext_values ==
        Slice(t.freetext_values_chunk, 0, t.freetext_indices_chunk[n + 1])
  IN  Imported("none",
        WritePartTo(
          WritePartTo(WritePartTo(frame, ImportName, "values", t.chunk),
                      imp.free, "index", Tail(t.freetext_indices_chunk)),
          imp.free, "values", freetext_values),
        imp.accumulated + t.freetext_indices_chunk[n + 1],
        {Array(ImportName, "data"), Array(imp.free, "indices"),
         Array(imp.free, "values")})

\* LeakyCategoricalImporter.import_part
LeakyImportPart(imp, frame, cells) ==
  LET t == leaky_categorical_transform(cells, imp.keys)
      n == Len(cells)
      freetext_indices ==
        [i \in 1..(n + 1) |-> t.freetext_indices_chunk[i] + imp.accumulated]
      freetext_values ==
        Slice(t.freetext_values_chunk, 0, t.freetext_indices_chunk[n + 1])
  IN  Imported("none",
        WritePartTo(
          WritePartTo(WritePartTo(frame, ImportName, "values", t.chunk),
                      imp.free, "index", Tail(freetext_indices)),
          imp.free, "values", freetext_values),
        imp.accumulated + t.freetext_indices_chunk[n + 1],
        {Array(ImportName, "data"), Array(imp.free, "indices"),
         Array(imp.free, "values")})

\* self.field.keys['freetext'] = -1: CategoricalField.keys builds a dict of
\* key_values and key_names at each call, and the item is set in that dict;
\* the key_values and key_names of the field stay as they are
SetFreetextKey(frame) == frame

\* LeakyCategoricalImporter.complete: field.data and other_values_field.data
LeakyComplete(imp) == {Array(ImportName, "data"), Array(imp.free, "data")}

(***************************************************************************)
(* DateTimeImporter and DateImporter                                       *)
(***************************************************************************)
\* the cells of a date-time column: blank, white space, a date and time of
\* 19 characters, a date alone, 19 characters with a month that is none
DateTimeCells ==
  {"", " ", "2020-01-02 03:04:05", "2020-01-02", "2020-13-02 03:04:05"}

\* ops.transform_to_values and x.tobytes().strip(): the cells of the chunk
\* without the white space around them
Strip(cell) == IF cell = " " THEN "" ELSE cell

transform_to_values(cells) == [i \in 1..Len(cells) |-> Strip(cells[i])]

\* len(value)
ValueLen(value) ==
  CASE value = "" -> 0
    [] value = "2020-01-02" -> 10
    [] value = "2020-01-02 03:04:05" -> 19
    [] value = "2020-13-02 03:04:05" -> 19

\* datetime(int(value[0:4]), int(value[5:7]), ...) raises for a month
\* that is none
IsDateTime(value) == value = "2020-01-02 03:04:05"

\* v_datetime.timestamp(), read as UTC
TimestampOf(value) == CASE value = "2020-01-02 03:04:05" -> 1577934245

\* value[:10]
DayOf(value) ==
  CASE value = "2020-01-02 03:04:05" -> "2020-01-02"
    [] value = "2020-13-02 03:04:05" -> "2020-13-02"
    [] value = "2020-01-02" -> "2020-01-02"
    [] value = "" -> ""

\* DateTimeImporter.__init__
NewDateTimeImporter(create_day_field, create_flag_field) ==
  LET made == Created(NoColumns, ImportName, TimestampSpec)
      day == IF create_day_field
             THEN Created(made, Companion("_day"), FixedStringSpec(10))
             ELSE made
  IN  [imp |-> Importer("datetime", "none", 0, <<>>,
                        IF create_flag_field THEN Companion("_set")
                        ELSE "none",
                        IF create_day_field THEN Companion("_day")
                        ELSE "none",
                        "none", {}),
       df |-> IF create_flag_field
              THEN Created(day, Companion("_set"), NumericSpec("bool"))
              ELSE day]

\* the value the loop of write_part raises on: one that is not blank and
\* has no length of 32, 25 or 19, or one datetime() refuses
Unexpected(value) ==
  /\ value # ""
  /\ \/ ValueLen(value) \notin {32, 25, 19}
     \/ ~IsDateTime(value)

\* the writes of DateTimeImporter.write_part after its loop
DateTimeWrites(imp, frame, values) ==
  LET n == Len(values)
      datetime_ts == [i \in 1..n |-> IF values[i] = "" THEN 0
                                     ELSE TimestampOf(values[i])]
      dates == [i \in 1..n |-> IF values[i] = "" THEN ""
                               ELSE DayOf(values[i])]
      flags == [i \in 1..n |-> values[i] # ""]
      main == WritePartTo(frame, ImportName, "values", datetime_ts)
      day == IF imp.day # "none"
             THEN WritePartTo(main, imp.day, "values", dates) ELSE main
  IN  Imported("none",
        IF imp.flag # "none"
        THEN WritePartTo(day, imp.flag, "values", flags) ELSE day,
        imp.accumulated,
        {Array(ImportName, "data")}
          \cup (IF imp.day # "none" THEN {Array(imp.day, "data")} ELSE {})
          \cup (IF imp.flag # "none" THEN {Array(imp.flag, "data")} ELSE {}))

\* a write_part that writes the time stamps of the rows before the one it
\* raises on
DateTimeWritePartByRow(imp, frame, values) ==
  IF \E i \in 1..Len(values) : Unexpected(values[i])
  THEN LET bad == CHOOSE i \in 1..Len(values) :
                    /\ Unexpected(values[i])
                    /\ \A j \in 1..(i - 1) : ~Unexpected(values[j])
       IN  Imported("ValueError",
             WritePartTo(frame, ImportName, "values",
                         [i \in 1..(bad - 1) |->
                            IF values[i] = "" THEN 0
                            ELSE TimestampOf(values[i])]),
             imp.accumulated, {Array(ImportName, "data")})
  ELSE DateTimeWrites(imp, frame, values)

\* DateTimeImporter.write_part(values): the loop over the values raises
\* before anything is written
DateTimeWritePart(imp, frame, values) ==
  IF \E i \in 1..Len(values) : Unexpected(values[i])
  THEN Imported("ValueError", frame, imp.accumulated, {})
  ELSE DateTimeWrites(imp, frame, values)

\* DateTimeImporter.import_part
DateTimeImportPart(imp, frame, cells) ==
  DateTimeWritePart(imp, frame, transform_to_values(cells))

\* DateTimeImporter.complete
DateTimeComplete(imp) ==
  {Array(ImportName, "data")}
    \cup (IF imp.day # "none" THEN {Array(imp.day, "data")} ELSE {})
    \cup (IF imp.flag # "none" THEN {Array(imp.flag, "data")} ELSE {})

\* DateImporter.__init__
NewDateImporter(create_flag_field) ==
  LET made == Created(NoColumns, ImportName, FixedStringSpec(10))
  IN  [imp |-> Importer("date", "none", 0, <<>>,
                        IF create_flag_field THEN Companion("_set")
                        ELSE "none",
                        "none", "none", {}),
       df |-> IF create_flag_field
              THEN Created(made, Companion("_set"), NumericSpec("bool"))
              ELSE made]

\* DateImporter.write_part(values); 'if self.flag_field:' is True of any
\* field (HDF5Field.__bool__)
DateWritePart(imp, frame, values) ==
  LET main == WritePartTo(frame, ImportName, "values", values)
  IN  IF imp.flag # "none"
      THEN Imported("none",
             WritePartTo(main, imp.flag, "values",
                         [i \in 1..Len(values) |-> values[i] # ""]),
             imp.accumulated,
             {Array(ImportName, "data"), Array(imp.flag, "data")})
      ELSE Imported("none", main, imp.accumulated,
                    {Array(ImportName, "data")})

\* DateImporter.import_part
DateImportPart(imp, frame, cells) ==
  DateWritePart(imp, frame, transform_to_values(cells))

\* DateImporter.complete: field.data alone
DateComplete(imp) == {Array(ImportName, "data")}

(***************************************************************************)
(* An ingestion stream of one column: an importer is made, import_part is  *)
(* called chunk after chunk, complete is called.                           *)
(***************************************************************************)
\* the most calls of import_part of a stream
MaxImportParts == 2

\* the importers that can be made, each with the DataFrame it leaves
NewImporters ==
  {NewNumericImporter(mode, invalid_value, create_flag_field) :
     mode \in ValidationModes, invalid_value \in InvalidValues,
     create_flag_field \in BOOLEAN}
  \cup {NewIndexedStringImporter, NewCategoricalImporter,
        NewLeakyCategoricalImporter}
  \cup {NewDateTimeImporter(create_day_field, create_flag_field) :
          create_day_field \in BOOLEAN, create_flag_field \in BOOLEAN}
  \cup {NewDateImporter(create_flag_field) : create_flag_field \in BOOLEAN}

\* the cells a column of the importer's kind can hold
CellsOf(kind) ==
  CASE kind = "numeric" -> NumericCells
    [] kind \in {"string", "categorical", "leaky"} -> TextCells
    [] kind \in {"datetime", "date"} -> DateTimeCells
    [] kind = "none" -> {}

\* <Importer>.import_part by the class of the importer
import_part(imp, frame, cells) ==
  CASE imp.kind = "numeric" -> NumericImportPart(imp, frame, cells)
    [] imp.kind = "string" -> StringImportPart(imp, frame, cells)
    [] imp.kind = "categorical" -> CategoricalImportPart(imp, frame, cells)
    [] imp.kind = "leaky" -> LeakyImportPart(imp, frame, cells)
    [] imp.kind = "datetime" -> DateTimeImportPart(imp, frame, cells)
    [] imp.kind = "date" -> DateImportPart(imp, frame, cells)

\* the arrays <Importer>.complete calls complete() on
import_complete(imp) ==
  CASE imp.kind = "numeric" -> NumericComplete(imp)
    [] imp.kind = "string" -> StringComplete(imp)
    [] imp.kind = "categorical" -> CategoricalComplete(imp)
    [] imp.kind = "leaky" -> LeakyComplete(imp)
    [] imp.kind = "datetime" -> DateTimeComplete(imp)
    [] imp.kind = "date" -> DateComplete(imp)

\* <Importer>(session, df, name, ...)
NewImporter(made) ==
  /\ importer = NoImporter
  /\ importer' = made.imp
  /\ df' = made.df
  /\ UNCHANGED <<wvars, fvars, ddf, dfcall>>

\* importer.import_part(...) on a chunk of cells
ImportPart(cells) ==
  /\ importer # NoImporter
  /\ importer.op # "complete"
  /\ importer.chunks < MaxImportParts
  /\ Len(importer.cells) + Len(cells) <= MaxImportRows
  /\ LET out == import_part(importer, df, cells)
     IN  /\ df' = out.df
         /\ importer' =
              [importer EXCEPT
                 !.accumulated = out.accumulated,
                 !.open = @ \cup out.written,
                 !.cells = IF out.err = "none" THEN @ \o cells ELSE @,
                 !.chunks = @ + 1,
                 !.op = "import_part", !.chunk = cells, !.err = out.err,
                 !.before = df]
  /\ UNCHANGED <<wvars, fvars, ddf, dfcall>>

\* importer.complete()
ImportComplete ==
  /\ importer # NoImporter
  /\ importer.op # "complete"
  /\ df' = IF importer.kind = "leaky" THEN SetFreetextKey(df) ELSE df
  /\ importer' =
       [importer EXCEPT
          !.open = @ \ import_complete(importer),
          !.closed = import_complete(importer),
          !.op = "complete", !.err = "none",
          !.before = df]
  /\ UNCHANGED <<wvars, fvars, ddf, dfcall>>

ImportInit ==
  /\ WriterIdle
  /\ ImporterIdle
  /\ FieldIdle
  /\ df = NoColumns
  /\ ddf = NoColumns
  /\ dfcall = NoCall

ImportNext ==
  \/ \E made \in NewImporters : NewImporter(made)
  \/ \E cells \in SeqsUpTo(CellsOf(importer.kind), MaxImportRows) :
       ImportPart(cells)
  \/ ImportComplete

SpecImport == ImportInit /\ [][ImportNext]_vars

(***************************************************************************)
(* Properties of the importers.                                            *)
(***************************************************************************)
\* the datasets of a target field, now and before the last call
TargetField(name) == df.h5group[name]
TargetFieldBefore(name) == importer.before.h5group[name]

\* import_part has just been called
PartImported == importer # NoImporter /\ importer.op = "import_part"

\* the cell is one the validation mode does not admit
FatalCell(cell, mode) ==
  \/ cell = "" /\ mode = "strict"
  \/ cell \notin {"", "12", "-3"} /\ mode \in {"strict", "allow_empty"}

\* the value and the flag a cell is stored with
StoredValue(cell, invalid_value) ==
  CASE cell = "12" -> 12
    [] cell = "-3" -> 0 - 3
    [] OTHER -> invalid_value

StoredFlag(cell) == cell \in {"12", "-3"}

\* the example: cells ["12", "", "-3", "x"], invalid_value 0, int32
NumericExample(mode) ==
  LET made == NewNumericImporter(mode, 0, TRUE)
  IN  NumericImportPart(made.imp, made.df, <<"12", "", "-3", "x">>)

FreetextRow(group, i) ==
  Slice(group.values, group.index[i + 1], group.index[i + 2])

\* the example: keys {'foo': 0, 'bar': 1} and cells [foo, baz, bar]
LeakyExample ==
  LeakyImportPart(NewLeakyCategoricalImporter.imp,
                  NewLeakyCategoricalImporter.df, <<"foo", "baz", "bar">>)

\* C24: leaky categorical import.  After any chunks, row by row: a cell in
\* the key table is stored as its code and the free text field holds '' at
\* that row; a cell not in the table is stored as -1 and the free text field
\* holds its literal text at that row.  With keys {'foo': 0, 'bar': 1} and
\* cells [foo, baz, bar] the codes are [0, -1, 1] and the free text rows
\* ['', 'baz', ''].  The importer that is not leaky raises on a chunk with a
\* cell that is not in the table, and stores nothing of it.
LeakyKeepsFreetext ==
  /\ (importer # NoImporter /\ importer.kind = "leaky") =>
       LET cells == importer.cells
           free == TargetField(importer.free)
       IN  /\ importer.err = "none"
           /\ Len(TargetField(ImportName).values) = Len(cells)
           /\ Len(free.index) = Len(cells) + 1
           /\ \A i \in 1..Len(cells) :
                IF InCategories(Categories, cells[i])
                THEN /\ TargetField(ImportName).values[i]
                          = CodeOf(Categories, cells[i])
                     /\ FreetextRow(free, i - 1) = <<>>
                ELSE /\ TargetField(ImportName).values[i] = 0 - 1
                     /\ FreetextRow(free, i - 1) = CellBytes(cells[i])
  /\ LeakyExample.df.h5group[ImportName].values = <<0, 0 - 1, 1>>
  /\ \A i \in 0..2 :
       FreetextRow(LeakyExample.df.h5group[Companion("_freetext")], i)
         = CellBytes(<<"", "baz", "">>[i + 1])
  /\ (PartImported /\ importer.kind = "categorical"
        /\ \E i \in 1..Len(importer.chunk) :
             ~InCategories(Categories, importer.chunk[i]))
       => /\ importer.err # "none"
          /\ df = importer.before

\* two chunks, the first of a cell that is no category, the second of one
\* row, and a cell that is a category among the rows
LeakyKeepsFreetextWitness ==
  /\ importer # NoImporter
  /\ importer.kind = "leaky"
  /\ importer.chunks = 2
  /\ Len(importer.chunk) = 1
  /\ Len(importer.cells) = 2
  /\ ~InCategories(Categories, importer.cells[1])
  /\ \E i \in 1..2 : InCategories(Categories, importer.cells[i])
  /\ \E i \in 1..2 : FreetextRow(TargetField(importer.free), i - 1) # <<>>

\* C25: for every importer, complete() completes every array of every
\* target field the importer made: after complete() returns, no array of a
\* target field (main field, validity flag, '_set' flag, '_day' field,
\* free text indices and values) has had write_part called without a later
\* complete().
CompleteCompletesAll ==
  (importer # NoImporter /\ importer.op = "complete") => importer.open = {}

\* what does hold of the code: the importers other than DateImporter and
\* LeakyCategoricalImporter leave no array open
CompleteCompletesMost ==
  (importer # NoImporter /\ importer.op = "complete"
     /\ importer.kind \notin {"date", "leaky"}) => importer.open = {}

\* the import of all the rows as one chunk by a new importer
OneChunk(cells) ==
  StringImportPart(NewIndexedStringImporter.imp, NewIndexedStringImporter.df,
                   cells).df.h5group[ImportName]

\* C26: chunking does not change the result of string ingestion.  However
\* the rows are split into chunks, after the import_part calls and after
\* complete() the indices and values datasets are those of an import of all
\* the rows as one chunk; indices holds a leading 0 and then, for each row,
\* the count of the bytes of all rows up to it, across chunks.
ChunkingInvariant ==
  (importer # NoImporter /\ importer.kind = "string") =>
    LET cells == importer.cells
        f == TargetField(ImportName)
    IN  /\ f.index = OneChunk(cells).index
        /\ f.values = OneChunk(cells).values
        /\ Len(f.index) = Len(cells) + 1
        /\ f.index[1] = 0
        /\ \A i \in 1..Len(cells) :
             f.index[i + 1] = Len(ColumnVals(SubSeq(cells, 1, i)))
        /\ f.values = ColumnVals(cells)

\* two chunks of one row each, neither row empty, then complete()
ChunkingInvariantWitness ==
  /\ importer # NoImporter
  /\ importer.kind = "string"
  /\ importer.op = "complete"
  /\ importer.chunks = 2
  /\ Len(importer.chunk) = 1
  /\ Len(importer.cells) = 2
  /\ importer.cells[1] # ""
  /\ importer.cells[2] # ""
  /\ TargetField(ImportName).index = <<0, 3, 6>>

\* the companion fields of the importer
Companions ==
  {importer.flag, importer.day, importer.free} \ {"none"}

\* C28: a failing import_part writes nothing.  When import_part of a
\* NumericImporter or a DateTimeImporter raises, no target field has gained
\* a row; so after any calls of import_part, raising or not, the main field
\* and each companion field (valid flag, '_set' flag, '_day') have the same
\* number of rows.
FailedPartWritesNothing ==
  (importer # NoImporter /\ importer.kind \in {"numeric", "datetime"}) =>
    /\ (importer.op = "import_part" /\ importer.err # "none") =>
         df = importer.before
    /\ \A name \in Companions :
         Len(TargetField(name).values) = Len(TargetField(ImportName).values)
    /\ Len(TargetField(ImportName).values) = Len(importer.cells)

\* a DateTimeImporter with both companions, a chunk of one row stored, then
\* a chunk that raises
FailedPartWritesNothingWitness ==
  /\ PartImported
  /\ importer.kind = "datetime"
  /\ importer.day # "none"
  /\ importer.flag # "none"
  /\ importer.err # "none"
  /\ importer.chunks = 2
  /\ Len(importer.cells) = 1
  /\ Len(TargetField(importer.day).values) = 1

\* the codes of the rows of the categorical field
StoredCodes ==
  {TargetField(ImportName).values[i] : i \in 1..Len(TargetField(ImportName).values)}

\* C30: after LeakyCategoricalImporter.complete() the key table of the
\* categorical field has an entry for the code -1, named 'freetext', next
\* to the declared categories, so every code stored in the field is in the
\* key table.
LeakyKeyHasFreetext ==
  (importer # NoImporter /\ importer.kind = "leaky"
     /\ importer.op = "complete") =>
    LET keys == Keys(TargetField(ImportName))
    IN  /\ \E i \in 1..Len(keys) :
             keys[i][1] = 0 - 1 /\ keys[i][2] = "freetext"
        /\ \A i \in 1..Len(Categories) :
             \E j \in 1..Len(keys) :
               keys[j][1] = Categories[i][2] /\ keys[j][2] = Categories[i][1]
        /\ \A code \in StoredCodes : \E i \in 1..Len(keys) : keys[i][1] = code

\* what does hold of the code: the key table after complete() is the
\* declared categories, and every stored code is in it or is -1
LeakyKeyIsDeclared ==
  (importer # NoImporter /\ importer.kind = "leaky"
     /\ importer.op = "complete") =>
    LET keys == Keys(TargetField(ImportName))
    IN  /\ Len(keys) = Len(Categories)
        /\ \A code \in StoredCodes :
             code = 0 - 1 \/ \E i \in 1..Len(keys) : keys[i][1] = code

=============================================================================
